---- MODULE Spec2Model ----
(***************************************************************************)
(* State-machine model of the credit_scoring_validator analysis core:      *)
(* the oracle gateway (api/client.py), the collection loops and metric     *)
(* engines (analysis/bias_fairness.py, robustness.py, consistency.py) and  *)
(* the explanation quality scorer (analysis/transparency.py).              *)
(*                                                                         *)
(* Python values are tagged records: None, Num(n), Str(s); a text is a     *)
(* sequence of one-character strings, so substring tests, lower() and the  *)
(* regular expressions are computed on the characters.                     *)
(* Each engine has its own specification (SpecQuality, SpecClient, ...);   *)
(* the variables of the other engines stay parked at their initial value.  *)
(***************************************************************************)
EXTENDS Integers, Sequences, FiniteSets, TLC

VARIABLES
    calls,              \* api client: number of send_request calls made so far
    analysis_results,   \* transparency: input of calculate_explanation_quality_score
    quality_result,     \* transparency: its return value (None before the call)
    caller,             \* api client: the engine whose code calls send_request
    response,           \* api client: value returned by the last send_request
    all_responses,      \* utils/response_collector.py: global_collector.all_responses
    loop,               \* collection loops: which loop runs (bias_fairness, robustness, consistency)
    loop_pc,            \* collection loops: "running", "done", or "raised"
    idx,                \* collection loops: samples fully processed so far
    step,               \* collection loops: calls already made for the current sample
    pending,            \* collection loops: responses held for the current sample
    records,            \* collection loops: responses / consistency_data built so far
    call_count,         \* consistency: call_count
    outcome_log,        \* history: the HTTP outcome of every call of the loop, in order
    delay_seconds,      \* consistency: delay_seconds
    sleeps,             \* history: the calls of time.sleep, each with its sample and repeat
    run_fn,             \* run functions: which top-level run function was called
    run_pc,             \* run functions: "start", "responses", "returned" or "raised"
    dataset,            \* run functions: data/testdata.csv (missing, unreadable, or its rows)
    cache,              \* run functions: the engine's results/responses/*.jsonl file
    run_responses,      \* run functions: number of responses in hand
    run_result,         \* run functions: the value returned, or the exception that escaped
    df,                 \* bias: the dataset (a sequence of rows with the same columns)
    protected_attr,     \* bias: the protected attribute under analysis
    cf_values,          \* bias: unique_vals / values of counterfactual_fairness
    cf_pc,              \* bias: "attr", "row", "alts", "done"
    cf_idx,             \* bias: rows of the sample already handled
    cf_alt,             \* bias: alternate values of the current row already sent
    cf_original,        \* bias: parsed classification and score of the current row
    cf_sent,            \* bias: the inputs sent for the current row, in order
    cf_input_data,      \* bias: input_data, the dict of the current row
    cf_last_response,   \* bias: what the last send_request of the test returned
    total_rows,         \* bias: total_rows
    total_violations,   \* bias: total_violations
    cf_calls,           \* history: counterfactual calls made
    cf_result,          \* bias: results[attr]["counterfactual_fairness"]
    groups,             \* bias: the groups mapping handed to disparate_impact_ratio
    di_ratio,           \* bias: the value disparate_impact_ratio returned
    analysis,           \* analysis of stored responses: "robustness" or "consistency"
    analysis_pc,        \* analysis: "loop", "done" or "raised"
    examined,           \* analysis: records of the file already read by the loop
    item,               \* analysis: the record last read, with what was parsed from it
    locals,             \* analysis: the accumulators of the analysing function
    returned,           \* analysis: the results dict returned, or the exception raised
    dp_entries,         \* bias: the responses handed to demographic_parity
    dp_pc,              \* bias: "loop", "grouped" or "done"
    dp_idx,             \* bias: entries already read by demographic_parity
    dp_errors,          \* bias: errors_encountered
    oracle_result,      \* normalizers: the value send_request returned for a structured answer
    robustness_parsed,  \* normalizers: what robustness.parse_credit_decision returned for it
    consistency_parsed, \* normalizers: what consistency.extract_decision_and_confidence returned
    score_confidence,   \* normalizers: what calculate_confidence_from_score returned for its score
    thread_pc,          \* app: where each run_analysis_background invocation stands
    sent,               \* app: send_request calls each invocation has made
    global_collector,   \* app: global_collector.all_responses, each record with its invocation
    analysis_status,    \* app: the global analysis_status, with the invocation that wrote it last
    agg_function,       \* order of records: the aggregating function applied (demographic_parity, analyze_robustness_results, analyze_consistency_results)
    agg_list,           \* order of records: the list of records handed to it
    agg_order,          \* order of records: a permutation of the positions of the list
    agg_results,        \* order of records: the aggregates of the list and of the permuted list
    profile,            \* generate_lime_explanation: the profile explained
    n_samples,          \* generate_lime_explanation: the samples asked for
    lime_pc,            \* generate_lime_explanation: sampling, fitting, returned, analysed
    perturbed_samples,  \* generate_lime_explanation: the samples kept so far
    predictions,        \* history: what send_request returned for each sample
    lime_results,       \* what generate_lime_explanation returned, or the exception leaving it
    lime_analysis,      \* analyze_lime_alignment and analyze_explanation_completeness of lime_results
    form_data,          \* run_analysis_background: the selections of the accepted request
    bg_pc,              \* run_analysis_background: idle, reset, engines, finishing, ended
    bg_engine,          \* position in the fixed sequence of analyses
    bg_phase,           \* select, reference, run, report of the analysis at bg_engine
    bg_status,          \* analysis_status as this invocation writes it
    status_references,  \* the engines whose module holds the status reference
    analyses_run,       \* history: the analyses that ran, in order
    env_failed          \* history: an oracle call, dataset read or report write failed

qualityVars == <<analysis_results, quality_result>>
clientVars == <<caller, calls, response, all_responses>>

collectVars == <<loop, loop_pc, idx, step, pending, records, call_count, outcome_log,
                 delay_seconds, sleeps>>

runVars == <<run_fn, run_pc, dataset, cache, run_responses, run_result>>

cfVars == <<df, protected_attr, cf_values, cf_pc, cf_idx, cf_alt, cf_original, cf_sent,
            cf_input_data, cf_last_response,
            total_rows, total_violations, cf_calls, cf_result>>

diVars == <<groups, di_ratio>>

analysisVars == <<analysis, analysis_pc, examined, item, locals, returned>>

parityVars == <<dp_entries, dp_pc, dp_idx, dp_errors>>

normalizeVars == <<oracle_result, robustness_parsed, consistency_parsed, score_confidence>>

concurrentVars == <<thread_pc, sent, global_collector, analysis_status>>

orderVars == <<agg_function, agg_list, agg_order, agg_results>>

limeVars == <<profile, n_samples, lime_pc, perturbed_samples, predictions, lime_results, lime_analysis>>

backgroundVars == <<form_data, bg_pc, bg_engine, bg_phase, bg_status, status_references, analyses_run, env_failed>>

vars == <<qualityVars, clientVars, collectVars, runVars, cfVars, diVars, analysisVars, parityVars, normalizeVars, concurrentVars, orderVars, limeVars, backgroundVars>>

\* the variables an engine's specification leaves alone
notQualityVars == <<clientVars, collectVars, runVars, cfVars, diVars, analysisVars, parityVars, normalizeVars, concurrentVars, orderVars, limeVars, backgroundVars>>
notClientVars == <<qualityVars, collectVars, runVars, cfVars, diVars, analysisVars, parityVars, normalizeVars, concurrentVars, orderVars, limeVars, backgroundVars>>
notCollectVars == <<qualityVars, runVars, cfVars, diVars, analysisVars, parityVars, normalizeVars, concurrentVars, orderVars, limeVars, backgroundVars>>
notRunVars == <<qualityVars, clientVars, collectVars, cfVars, diVars, analysisVars, parityVars, normalizeVars, concurrentVars, orderVars, limeVars, backgroundVars>>
notCfVars == <<qualityVars, clientVars, collectVars, runVars, diVars, analysisVars, parityVars, normalizeVars, concurrentVars, orderVars, limeVars, backgroundVars>>
notAnalysisVars == <<qualityVars, clientVars, collectVars, runVars, cfVars, diVars, parityVars, normalizeVars, concurrentVars, orderVars, limeVars, backgroundVars>>
notDiVars == <<qualityVars, clientVars, collectVars, runVars, cfVars, analysisVars, parityVars, normalizeVars, concurrentVars, orderVars, limeVars, backgroundVars>>
notBackgroundVars == <<qualityVars, clientVars, collectVars, runVars, cfVars, diVars, analysisVars, parityVars, normalizeVars, concurrentVars, orderVars, limeVars>>
notLimeVars == <<qualityVars, clientVars, collectVars, runVars, cfVars, diVars, analysisVars, parityVars, normalizeVars, concurrentVars, orderVars, backgroundVars>>
notOrderVars == <<qualityVars, clientVars, collectVars, runVars, cfVars, diVars, analysisVars, parityVars, normalizeVars, concurrentVars, limeVars, backgroundVars>>
notConcurrentVars == <<qualityVars, clientVars, collectVars, runVars, cfVars, diVars, analysisVars, parityVars, normalizeVars, orderVars, limeVars, backgroundVars>>
notNormalizeVars == <<qualityVars, clientVars, collectVars, runVars, cfVars, diVars, analysisVars, parityVars, concurrentVars, orderVars, limeVars, backgroundVars>>
\* demographic_parity hands its groups to disparate_impact_ratio (diVars)
notParityVars == <<qualityVars, clientVars, collectVars, runVars, cfVars, analysisVars, normalizeVars, concurrentVars, orderVars, limeVars, backgroundVars>>

-----------------------------------------------------------------------------
(* Python values *)

None == [null |-> TRUE]
Num(n) == [num |-> n]
Str(s) == [str |-> s]
IsNone(v) == "null" \in DOMAIN v
IsNum(v) == "num" \in DOMAIN v
IsStr(v) == "str" \in DOMAIN v

\* min(a, b), max(a, b)
Min(a, b) == IF a <= b THEN a ELSE b
Max(a, b) == IF a >= b THEN a ELSE b

\* The value of each engine's variables while another engine's specification runs.
QualityParked == analysis_results = None /\ quality_result = None
ClientParked == caller = "idle" /\ calls = 0 /\ response = None /\ all_responses = <<>>
CollectParked ==
    /\ loop = "idle" /\ loop_pc = "idle" /\ idx = 0 /\ step = 0 /\ pending = <<>>
    /\ records = <<>> /\ call_count = 0 /\ outcome_log = <<>>
    /\ delay_seconds = 0 /\ sleeps = <<>>
RunParked ==
    /\ run_fn = "idle" /\ run_pc = "idle" /\ dataset = None /\ cache = None
    /\ run_responses = 0 /\ run_result = None
CfParked ==
    /\ df = <<>> /\ protected_attr = "idle" /\ cf_values = <<>> /\ cf_pc = "idle"
    /\ cf_idx = 0 /\ cf_alt = 0 /\ cf_original = None /\ cf_sent = <<>>
    /\ cf_input_data = None /\ cf_last_response = None
    /\ total_rows = 0 /\ total_violations = 0 /\ cf_calls = 0 /\ cf_result = None

DiParked == groups = None /\ di_ratio = None
AnalysisParked ==
    /\ analysis = "idle" /\ analysis_pc = "idle" /\ examined = 0
    /\ item = None /\ locals = None /\ returned = None

ParityParked ==
    dp_entries = <<>> /\ dp_pc = "idle" /\ dp_idx = 0 /\ dp_errors = 0

NormalizeParked ==
    oracle_result = None /\ robustness_parsed = None /\ consistency_parsed = None /\ score_confidence = None

ConcurrentParked ==
    thread_pc = <<>> /\ sent = <<>> /\ global_collector = <<>> /\ analysis_status = None

OrderParked ==
    agg_function = "idle" /\ agg_list = <<>> /\ agg_order = <<>> /\ agg_results = None

LimeParked ==
    profile = None /\ n_samples = 0 /\ lime_pc = "idle" /\ perturbed_samples = <<>> /\ predictions = <<>> /\ lime_results = None /\ lime_analysis = None

BackgroundParked ==
    form_data = None /\ bg_pc = "parked" /\ bg_engine = 0 /\ bg_phase = "select" /\ bg_status = None /\ status_references = {} /\ analyses_run = <<>> /\ env_failed = FALSE

ParkedButQuality == ClientParked /\ CollectParked /\ RunParked /\ CfParked /\ DiParked /\ AnalysisParked /\ ParityParked /\ NormalizeParked /\ ConcurrentParked /\ OrderParked /\ LimeParked /\ BackgroundParked
ParkedButClient == QualityParked /\ CollectParked /\ RunParked /\ CfParked /\ DiParked /\ AnalysisParked /\ ParityParked /\ NormalizeParked /\ ConcurrentParked /\ OrderParked /\ LimeParked /\ BackgroundParked
ParkedButCollect == QualityParked /\ RunParked /\ CfParked /\ DiParked /\ AnalysisParked /\ ParityParked /\ NormalizeParked /\ ConcurrentParked /\ OrderParked /\ LimeParked /\ BackgroundParked
ParkedButRun == QualityParked /\ ClientParked /\ CollectParked /\ CfParked /\ DiParked /\ AnalysisParked /\ ParityParked /\ NormalizeParked /\ ConcurrentParked /\ OrderParked /\ LimeParked /\ BackgroundParked
ParkedButCf == QualityParked /\ ClientParked /\ CollectParked /\ RunParked /\ DiParked /\ AnalysisParked /\ ParityParked /\ NormalizeParked /\ ConcurrentParked /\ OrderParked /\ LimeParked /\ BackgroundParked
ParkedButAnalysis ==
    QualityParked /\ ClientParked /\ CollectParked /\ RunParked /\ CfParked /\ DiParked /\ ParityParked /\ NormalizeParked /\ ConcurrentParked /\ OrderParked /\ LimeParked /\ BackgroundParked
ParkedButDi == QualityParked /\ ClientParked /\ CollectParked /\ RunParked /\ CfParked /\ AnalysisParked /\ ParityParked /\ NormalizeParked /\ ConcurrentParked /\ OrderParked /\ LimeParked /\ BackgroundParked
ParkedButBackground ==
    QualityParked /\ ClientParked /\ CollectParked /\ RunParked /\ CfParked /\ DiParked /\ AnalysisParked /\ ParityParked /\ NormalizeParked /\ ConcurrentParked /\ OrderParked /\ LimeParked
ParkedButLime ==
    QualityParked /\ ClientParked /\ CollectParked /\ RunParked /\ CfParked /\ DiParked /\ AnalysisParked /\ ParityParked /\ NormalizeParked /\ ConcurrentParked /\ OrderParked /\ BackgroundParked
ParkedButOrder ==
    QualityParked /\ ClientParked /\ CollectParked /\ RunParked /\ CfParked /\ DiParked /\ AnalysisParked /\ ParityParked /\ NormalizeParked /\ ConcurrentParked /\ LimeParked /\ BackgroundParked
ParkedButConcurrent ==
    QualityParked /\ ClientParked /\ CollectParked /\ RunParked /\ CfParked /\ DiParked /\ AnalysisParked /\ ParityParked /\ NormalizeParked /\ OrderParked /\ LimeParked /\ BackgroundParked
ParkedButNormalize ==
    QualityParked /\ ClientParked /\ CollectParked /\ RunParked /\ CfParked /\ DiParked /\ AnalysisParked /\ ParityParked /\ ConcurrentParked /\ OrderParked /\ LimeParked /\ BackgroundParked
ParkedButParity ==
    QualityParked /\ ClientParked /\ CollectParked /\ RunParked /\ CfParked /\ AnalysisParked /\ NormalizeParked /\ ConcurrentParked /\ OrderParked /\ LimeParked /\ BackgroundParked

-----------------------------------------------------------------------------
(* Texts: sequences of one-character strings *)

UpperCase == <<"A", "B", "C", "D", "E", "F", "G", "H", "I", "J", "K", "L", "M", "N", "O", "P", "Q", "R", "S", "T", "U", "V", "W", "X", "Y", "Z">>
LowerCase == <<"a", "b", "c", "d", "e", "f", "g", "h", "i", "j", "k", "l", "m", "n", "o", "p", "q", "r", "s", "t", "u", "v", "w", "x", "y", "z">>
Digits == <<"0", "1", "2", "3", "4", "5", "6", "7", "8", "9">>

InSeq(c, s) == \E i \in 1..Len(s) : s[i] = c
IndexIn(c, s) == CHOOSE i \in 1..Len(s) : s[i] = c

\* str.lower(), character by character
LowerChar(c) == IF InSeq(c, UpperCase) THEN LowerCase[IndexIn(c, UpperCase)] ELSE c
Lower(t) == [i \in 1..Len(t) |-> LowerChar(t[i])]

\* str.upper(), character by character
UpperChar(c) == IF InSeq(c, LowerCase) THEN UpperCase[IndexIn(c, LowerCase)] ELSE c
Upper(t) == [i \in 1..Len(t) |-> UpperChar(t[i])]

\* whether kw occurs in t at position i (1-based)
MatchAt(kw, t, i) ==
    /\ i + Len(kw) - 1 <= Len(t)
    /\ \A k \in 1..Len(kw) : t[i + k - 1] = kw[k]

\* Python's "kw in t" for strings
Contains(t, kw) == \E i \in 1..(Len(t) - Len(kw) + 1) : MatchAt(kw, t, i)

IsDigit(c) == InSeq(c, Digits)
DigitVal(c) == IndexIn(c, Digits) - 1

\* str(n) for an integer n
RECURSIVE NatToText(_)
NatToText(n) == IF n < 10 THEN <<Digits[n + 1]>> ELSE NatToText(n \div 10) \o <<Digits[(n % 10) + 1]>>
IntToText(n) == IF n < 0 THEN <<"-">> \o NatToText(-n) ELSE NatToText(n)

\* int(t) for a text of decimal digits
RECURSIVE TextToNat(_)
TextToNat(t) ==
    IF Len(t) = 0 THEN 0
    ELSE 10 * TextToNat(SubSeq(t, 1, Len(t) - 1)) + DigitVal(t[Len(t)])

\* str(v) of a Python value
PyStr(v) ==
    IF IsNone(v) THEN <<"N", "o", "n", "e">>
    ELSE IF IsNum(v) THEN IntToText(v.num)
    ELSE v.str

\* dict.get(key) / dict.get(key, default) on a dict held as a function
GetOr(d, key, default) == IF key \in DOMAIN d THEN d[key] ELSE default
Get(d, key) == GetOr(d, key, None)
EmptyDict == [k \in {} |-> None]

-----------------------------------------------------------------------------
(* api/client.py: construct_payload, send_request *)

TopLevelFields ==
    {"name", "income", "employment_status", "employment_duration_years",
     "existing_loans", "loan_amount", "credit_limit", "used_credit",
     "payment_defaults", "credit_inquiries_last_6_months", "housing_status",
     "address_stability_years", "household_size"}

ProtectedFields ==
    {"age", "gender", "nationality", "ethnicity", "disability_status",
     "education_level", "marital_status", "language_preference"}

\* temperature 0.1 is held in tenths
scoring_parameters ==
    [model |-> "MODEL", temperature_tenths |-> 1, top_p |-> 1, max_tokens |-> 512,
     presence_penalty |-> 0, frequency_penalty |-> 0, seed |-> 0]

construct_payload(row) ==
    [fields |-> [f \in TopLevelFields |-> Get(row, f)],
     protected_attributes |->
        [f \in ProtectedFields \cup {"postal_code"} |->
            IF f = "postal_code" THEN Str(PyStr(Get(row, "postal_code")))
            ELSE Get(row, f)],
     scoring_parameters |-> scoring_parameters]

\* The engines whose code calls send_request; app stands for a caller outside
\* the analysis package.
Engines == {"bias_fairness", "robustness", "accuracy", "consistency",
            "data_quality", "transparency"}

\* inspect: frame.f_back.f_back is the caller of send_request's caller; the
\* module is found by the first name that occurs in that frame's file name.
\* stack = <<file of the caller, file of the caller's caller>>, a file being
\* named by its module; a stack of one frame has no f_back.f_back.
calling_module_of(stack) ==
    IF Len(stack) < 2 THEN "unknown"
    ELSE LET calling_file == stack[2] IN
         IF calling_file = "bias_fairness" THEN "bias_fairness"
         ELSE IF calling_file = "robustness" THEN "robustness"
         ELSE IF calling_file = "accuracy" THEN "accuracy"
         ELSE IF calling_file = "consistency" THEN "consistency"
         ELSE IF calling_file \in {"data_quality", "data_quality_analyzer"} THEN "data_quality"
         ELSE "unknown"

\* The classes an exception is an instance of (requests.exceptions hierarchy).
ExceptionClasses(exc) ==
    CASE exc = "HTTPError" -> {"HTTPError", "RequestException", "Exception"}
      [] exc = "ReadTimeout" -> {"Timeout", "RequestException", "Exception"}
      [] exc = "ConnectTimeout" ->
            {"ConnectionError", "Timeout", "RequestException", "Exception"}
      [] exc = "ConnectionError" -> {"ConnectionError", "RequestException", "Exception"}
      [] exc = "InvalidURL" -> {"RequestException", "Exception"}
      [] exc = "RequestsJSONDecodeError" -> {"RequestException", "Exception"}
      [] OTHER -> {"Exception"}

ExceptClausesNoCatchAll ==
    <<"HTTPError", "Timeout", "ConnectionError", "RequestException">>

\* the except clauses of send_request, in order
ExceptClauses ==
    <<"HTTPError", "Timeout", "ConnectionError", "RequestException", "Exception">>

error_type_of(clause) ==
    CASE clause = "HTTPError" -> "http_error"
      [] clause = "Timeout" -> "timeout"
      [] clause = "ConnectionError" -> "connection_error"
      [] clause = "RequestException" -> "request_error"
      [] clause = "Exception" -> "unknown_error"

\* The try body up to "result = {...}": what it yields for one outcome of the
\* HTTP exchange, either the result dict or the exception raised.
Raise(exc, detail, status) == [raises |-> exc, detail |-> detail, status_code |-> status]

parsed_content_of(data) ==
    IF data.json = "dict" /\ "credit_score" \in DOMAIN data.fields
    THEN [ok |-> TRUE,
          value |-> [credit_score |-> Get(data.fields, "credit_score"),
                     classification |-> Get(data.fields, "classification"),
                     explanation |-> Get(data.fields, "explanation")]]
    ELSE IF data.json = "dict" /\ "metadata" \in DOMAIN data.fields
              /\ data.fields["metadata"].eval = "dict"
    THEN [ok |-> TRUE, value |-> data.fields["metadata"].value]
    ELSE IF data.json = "dict" /\ "metadata" \in DOMAIN data.fields
              /\ data.fields["metadata"].eval = "other"
    THEN [ok |-> FALSE]   \* eval gave a value without .get: AttributeError at the log line
    ELSE [ok |-> TRUE, value |-> EmptyDict]   \* inner except: parsed_content = {}

try_body(outcome) ==
    CASE outcome.step = "post_raises" -> Raise(outcome.exc, outcome.detail, None)
      [] outcome.step = "status" ->
            \* response.raise_for_status()
            Raise("HTTPError", outcome.detail, Num(outcome.status_code))
      [] outcome.step = "json_raises" -> Raise(outcome.exc, outcome.detail, None)
      [] outcome.step = "json" ->
            IF outcome.data.json = "scalar"
            THEN Raise("TypeError", <<"a", "r", "g", "u", "m", "e", "n", "t", " ", "i", "s", " ", "n", "o", "t", " ", "i", "t", "e", "r", "a", "b", "l", "e">>, None)
            ELSE LET pc == parsed_content_of(outcome.data) IN
                 IF ~pc.ok
                 THEN Raise("AttributeError", <<"o", "b", "j", "e", "c", "t", " ", "h", "a", "s", " ", "n", "o", " ", "a", "t", "t", "r", "i", "b", "u", "t", "e", " ", "g", "e", "t">>, None)
                 ELSE [raw_response |-> outcome.data,
                       parsed |-> pc.value,
                       status |-> "success",
                       status_code |-> outcome.status_code]

\* the first except clause that matches, 0 when none does
handler_of(exc) ==
    LET hits == {i \in 1..Len(ExceptClauses) : ExceptClauses[i] \in ExceptionClasses(exc)}
    IN  IF hits = {} THEN 0 ELSE CHOOSE i \in hits : \A j \in hits : i <= j

error_details(clause, raised, payload) ==
    IF clause = "HTTPError"
    THEN [error_type |-> "http_error", error |-> raised.detail,
          status_code |-> raised.status_code, payload |-> payload]
    ELSE [error_type |-> error_type_of(clause), error |-> raised.detail,
          payload |-> payload]

Raised(exc) == [raised |-> exc]
IsRaised(r) == "raised" \in DOMAIN r

\* The value send_request returns, or Raised(exc) when an exception escapes it.
send_request_result(row, outcome) ==
    LET payload == construct_payload(row)
        got == try_body(outcome)
    IN  IF "raises" \notin DOMAIN got THEN got
        ELSE LET h == handler_of(got.raises) IN
             IF h = 0 THEN Raised(got.raises)
             ELSE error_details(ExceptClauses[h], got, payload)

\* collector.add_response(calling_module, payload, result), inside try/except:
\* when the collector import or call fails nothing is appended.
collector_after(collected, stack, row, result, collector_ok) ==
    IF IsRaised(result) \/ ~collector_ok THEN collected
    ELSE Append(collected,
                [module |-> calling_module_of(stack),
                 input |-> construct_payload(row),
                 output |-> result])

\* The call stack of each engine's send_request calls.
StackOf(engine) == <<engine, engine>>

T_Good == <<"G", "o", "o", "d">>
T_Poor == <<"P", "o", "o", "r">>
T_Average == <<"A", "v", "e", "r", "a", "g", "e">>

Row1 == [name |-> Str(<<"A", "n", "n">>), income |-> Num(100000), gender |-> Str(<<"f", "e", "m", "a", "l", "e">>),
         postal_code |-> Num(10115)]
Row2 == [name |-> Str(<<"B", "o", "b">>), income |-> Num(20000), gender |-> Str(<<"m", "a", "l", "e">>)]
Row3 == [name |-> Str(<<"C", "y">>), gender |-> Str(<<"m", "a", "l", "e">>), postal_code |-> Str(<<"N", "1", " ", "9", "G", "U">>)]
\* The rows an engine sends, in the order it sends them.
Rows == <<Row1, Row2, Row3>>

NewFormat(score, class, expl) ==
    [json |-> "dict",
     fields |-> [credit_score |-> score, classification |-> class, explanation |-> expl]]

JsonBodies ==
    { NewFormat(Num(80), Str(T_Good), Str(<<"s", "t", "a", "b", "l", "e", " ", "i", "n", "c", "o", "m", "e">>)),
      NewFormat(Num(65), Str(T_Average), None),
      NewFormat(None, None, None),
      [json |-> "dict", fields |-> [credit_score |-> None]],
      [json |-> "dict", fields |-> [metadata |->
            [eval |-> "dict", value |-> [credit_score |-> Num(30), classification |-> Str(T_Poor)]]]],
      [json |-> "dict", fields |-> [metadata |-> [eval |-> "raises"]]],
      [json |-> "dict", fields |-> [metadata |-> [eval |-> "other"]]],
      [json |-> "dict", fields |-> [detail |-> Str(<<"b", "u", "s", "y">>)]],
      [json |-> "list"],
      [json |-> "scalar"] }

HttpOutcomes ==
    { [step |-> "post_raises", exc |-> "ReadTimeout", detail |-> <<"R", "e", "a", "d", " ", "t", "i", "m", "e", "d", " ", "o", "u", "t">>],
      [step |-> "post_raises", exc |-> "ConnectTimeout", detail |-> <<"C", "o", "n", "n", "e", "c", "t", " ", "t", "i", "m", "e", "d", " ", "o", "u", "t">>],
      [step |-> "post_raises", exc |-> "ConnectionError", detail |-> <<"C", "o", "n", "n", "e", "c", "t", "i", "o", "n", " ", "r", "e", "f", "u", "s", "e", "d">>],
      [step |-> "post_raises", exc |-> "InvalidURL", detail |-> <<"I", "n", "v", "a", "l", "i", "d", " ", "U", "R", "L">>],
      [step |-> "post_raises", exc |-> "TypeError", detail |-> <<"n", "o", "t", " ", "J", "S", "O", "N", " ", "s", "e", "r", "i", "a", "l", "i", "z", "a", "b", "l", "e">>],
      [step |-> "status", status_code |-> 404, detail |-> <<"4", "0", "4", " ", "C", "l", "i", "e", "n", "t", " ", "E", "r", "r", "o", "r">>],
      [step |-> "status", status_code |-> 500, detail |-> <<"5", "0", "0", " ", "S", "e", "r", "v", "e", "r", " ", "E", "r", "r", "o", "r">>],
      [step |-> "json_raises", exc |-> "RequestsJSONDecodeError", detail |-> <<"E", "x", "p", "e", "c", "t", "i", "n", "g", " ", "v", "a", "l", "u", "e">>],
      [step |-> "json_raises", exc |-> "ValueError", detail |-> <<"E", "x", "p", "e", "c", "t", "i", "n", "g", " ", "v", "a", "l", "u", "e">>] }
    \cup { [step |-> "json", status_code |-> 200, data |-> d] : d \in JsonBodies }

\* Bound on the number of send_request calls in one behaviour of SpecClient.
MaxCalls == 2

ClientInit ==
    /\ caller \in Engines
    /\ calls = 0
    /\ response = None
    /\ all_responses = <<>>
    /\ ParkedButClient

\* One call of send_request(row) by the engine, with one outcome of the HTTP
\* exchange and of the collector.
SendRequest(outcome, collector_ok) ==
    /\ calls < MaxCalls
    /\ ~IsRaised(response)
    /\ LET row == Rows[(calls % Len(Rows)) + 1]
           result == send_request_result(row, outcome)
       IN
        /\ calls' = calls + 1
        /\ response' = result
        /\ all_responses' =
                collector_after(all_responses, StackOf(caller), row, result, collector_ok)
    /\ UNCHANGED <<caller, notClientVars>>

ClientNext ==
    \E outcome \in HttpOutcomes, collector_ok \in BOOLEAN :
        SendRequest(outcome, collector_ok)

SpecClient == ClientInit /\ [][ClientNext]_vars

ErrorTypes == {"http_error", "timeout", "connection_error", "request_error", "unknown_error"}

\* C3: for every profile and every outcome of the HTTP call, send_request
\* returns a value and never raises: a success result carrying 'parsed', or a
\* failure dict whose error_type is one of http_error, timeout,
\* connection_error, request_error, unknown_error.
C3_SendRequestTotal ==
    response # None =>
        /\ ~IsRaised(response)
        /\ \/ /\ "error_type" \notin DOMAIN response
              /\ response.status = "success"
              /\ "parsed" \in DOMAIN response
           \/ /\ "error_type" \in DOMAIN response
              /\ response.error_type \in ErrorTypes
              /\ "parsed" \notin DOMAIN response

\* A call whose response handling raised an exception that is no requests
\* exception (a JSON body that is a bare number) has returned unknown_error.
C3_Witness ==
    /\ response # None
    /\ "error_type" \in DOMAIN response
    /\ response.error_type = "unknown_error"
    /\ response.error = <<"a", "r", "g", "u", "m", "e", "n", "t", " ", "i", "s", " ", "n", "o", "t", " ", "i", "t", "e", "r", "a", "b", "l", "e">>

\* the engines of the analysis core that call the gateway
GatewayEngines == {"bias_fairness", "robustness", "consistency", "transparency"}

\* C19: a send_request call of one of the engines bias_fairness, robustness,
\* consistency, transparency, successful or failed, appends one record
\* {module, input, output} to the response collector, and the record's module
\* names the engine that made the call.
C19_RecordNamesEngine ==
    [][ (calls' = calls + 1 /\ caller \in GatewayEngines) =>
            /\ Len(all_responses') <= Len(all_responses) + 1
            /\ Len(all_responses') = Len(all_responses) + 1 =>
                  /\ SubSeq(all_responses', 1, Len(all_responses)) = all_responses
                  /\ all_responses'[Len(all_responses')].module = caller
                  /\ all_responses'[Len(all_responses')].output = response' ]_vars

-----------------------------------------------------------------------------
(* The collection loops: bias_fairness.collect_responses,                   *)
(* robustness.collect_robustness_responses,                                 *)
(* consistency.collect_consistency_responses                                *)

\* Bound on the number of samples (rows, adversarial examples) of one loop.
MaxSamples == 2

\* num_repeats of collect_consistency_responses (its default)
NumRepeats == 3

perturbation_types ==
    <<"noise_numerical", "typos_text", "case_change", "missing_values", "extreme_values">>

\* capitalize_text on every text column of a row
case_change(row) ==
    [f \in DOMAIN row |-> IF IsStr(row[f]) THEN Str(Upper(row[f].str)) ELSE row[f]]

\* The adversarial examples handed to the loop: example k perturbs row k with
\* the k-th perturbation type. The loop reads an example's two profiles only
\* to send them; the perturbed profile is the row with its case changed.
adversarial_example(k) ==
    [original_index |-> (k - 1) % Len(Rows),
     perturbation_type |-> perturbation_types[((k - 1) % Len(perturbation_types)) + 1],
     original_data |-> Rows[((k - 1) % Len(Rows)) + 1],
     perturbed_data |-> case_change(Rows[((k - 1) % Len(Rows)) + 1])]

\* hash_input_data: the md5 digest is held as the data it digests
hash_input_data(data) == [md5_of |-> data]

\* The outcomes of the HTTP exchange met by the loops: a scored answer, a read
\* timeout, and a JSON body that is a bare number (TypeError in the handling).
CollectOutcomes ==
    { [step |-> "json", status_code |-> 200,
       data |-> NewFormat(Num(80), Str(T_Good), Str(<<"s", "t", "a", "b", "l", "e", " ", "i", "n", "c", "o", "m", "e">>))],
      [step |-> "post_raises", exc |-> "ReadTimeout", detail |-> <<"R", "e", "a", "d", " ", "t", "i", "m", "e", "d", " ", "o", "u", "t">>],
      [step |-> "json", status_code |-> 200, data |-> [json |-> "scalar"]] }

CollectLoops == {"bias_fairness", "robustness", "consistency"}

\* delay_seconds of collect_consistency_responses: no delay, or a delay
DelaySeconds == {0, 1}

\* calls made for one sample by each loop
CallsPerSample(l) ==
    IF l = "bias_fairness" THEN 1 ELSE IF l = "robustness" THEN 2 ELSE NumRepeats

\* the profile sent by call number step + 1 of sample number idx + 1
SampleRow(k) == Rows[((k - 1) % Len(Rows)) + 1]
ProfileSent(l, k, s) ==
    IF l = "robustness"
    THEN IF s = 0 THEN adversarial_example(k).original_data
         ELSE adversarial_example(k).perturbed_data
    ELSE SampleRow(k)

CollectInit ==
    /\ loop \in CollectLoops
    /\ loop_pc = "running"
    /\ idx = 0 /\ step = 0 /\ pending = <<>> /\ records = <<>>
    /\ call_count = 0 /\ outcome_log = <<>>
    /\ delay_seconds \in (IF loop = "consistency" THEN DelaySeconds ELSE {0})
    /\ sleeps = <<>>
    /\ caller = loop /\ calls = 0 /\ response = None /\ all_responses = <<>>
    /\ ParkedButCollect

\* the send_request call shared by the three loop bodies
LoopCall(row, outcome) ==
    LET result == send_request_result(row, outcome) IN
    /\ response' = result
    /\ calls' = calls + 1
    /\ all_responses' = collector_after(all_responses, StackOf(loop), row, result, TRUE)
    /\ outcome_log' = Append(outcome_log, outcome)
    /\ UNCHANGED <<caller, loop, delay_seconds, notCollectVars>>

\* bias_fairness.collect_responses: one iteration of "for i, row in df.iterrows()".
\* There is no try: an exception of send_request leaves the loop.
BiasCollectStep(outcome) ==
    /\ loop = "bias_fairness" /\ loop_pc = "running" /\ idx < MaxSamples
    /\ LET input_data == SampleRow(idx + 1)
           prediction == send_request_result(input_data, outcome)
       IN
        /\ LoopCall(input_data, outcome)
        /\ IF IsRaised(prediction)
           THEN /\ loop_pc' = "raised"
                /\ UNCHANGED <<idx, records>>
           ELSE /\ records' = Append(records, [input |-> input_data, output |-> prediction])
                /\ idx' = idx + 1
                /\ loop_pc' = "running"
    /\ UNCHANGED <<step, pending, call_count, sleeps>>

\* collect_robustness_responses: the call with the original data. An exception
\* is caught by the loop's except, which continues with the next example.
RobustnessCallOriginal(outcome) ==
    /\ loop = "robustness" /\ loop_pc = "running" /\ idx < MaxSamples /\ step = 0
    /\ LET example == adversarial_example(idx + 1)
           original_response == send_request_result(example.original_data, outcome)
       IN
        /\ LoopCall(example.original_data, outcome)
        /\ IF IsRaised(original_response)
           THEN /\ idx' = idx + 1
                /\ UNCHANGED <<step, pending>>
           ELSE /\ pending' = <<original_response>>
                /\ step' = 1
                /\ UNCHANGED idx
    /\ UNCHANGED <<loop_pc, records, call_count, sleeps>>

\* collect_robustness_responses: the call with the perturbed data and the record
RobustnessCallPerturbed(outcome) ==
    /\ loop = "robustness" /\ loop_pc = "running" /\ idx < MaxSamples /\ step = 1
    /\ LET example == adversarial_example(idx + 1)
           perturbed_response == send_request_result(example.perturbed_data, outcome)
       IN
        /\ LoopCall(example.perturbed_data, outcome)
        /\ IF IsRaised(perturbed_response)
           THEN UNCHANGED records
           ELSE records' = Append(records,
                    [example_index |-> idx,
                     original_index |-> example.original_index,
                     perturbation_type |-> example.perturbation_type,
                     original_data |-> example.original_data,
                     perturbed_data |-> example.perturbed_data,
                     original_response |-> pending[1],
                     perturbed_response |-> perturbed_response])
        /\ idx' = idx + 1 /\ step' = 0 /\ pending' = <<>>
    /\ UNCHANGED <<loop_pc, call_count, sleeps>>

\* the consistency record appended after the repeats of one sample
consistency_record(input_data, sample_index, responses_for_input) ==
    [input_hash |-> hash_input_data(input_data),
     input_data |-> input_data,
     sample_index |-> sample_index,
     responses |-> responses_for_input,
     num_responses |-> Len(responses_for_input)]

\* "if delay_seconds > 0 and repeat > 0" before the call of a repeat
delay_before_every_repeat(delay, repeat) == delay > 0

delay_due(delay, repeat) == delay > 0 /\ repeat > 0

\* collect_consistency_responses: one repeat of the inner loop (the delay, the
\* call and its response record); after the last repeat the sample's record is
\* appended when it holds any response.
ConsistencyCall(outcome) ==
    /\ loop = "consistency" /\ loop_pc = "running" /\ idx < MaxSamples /\ step < NumRepeats
    /\ sleeps' = IF delay_due(delay_seconds, step)
                 THEN Append(sleeps, [sample_index |-> idx, repeat |-> step,
                                      calls_before |-> calls, seconds |-> delay_seconds])
                 ELSE sleeps
    /\ LET input_data == SampleRow(idx + 1)
           result == send_request_result(input_data, outcome)
           responses_for_input ==
                IF IsRaised(result) THEN pending
                ELSE Append(pending,
                        [input_hash |-> hash_input_data(input_data),
                         input_data |-> input_data,
                         repeat_number |-> step + 1,
                         response |-> result,
                         call_order |-> call_count + 1])
       IN
        /\ LoopCall(input_data, outcome)
        /\ call_count' = IF IsRaised(result) THEN call_count ELSE call_count + 1
        /\ IF step + 1 < NumRepeats
           THEN /\ step' = step + 1
                /\ pending' = responses_for_input
                /\ UNCHANGED <<idx, records>>
           ELSE /\ step' = 0
                /\ pending' = <<>>
                /\ idx' = idx + 1
                /\ records' = IF responses_for_input # <<>>
                              THEN Append(records,
                                     consistency_record(input_data, idx, responses_for_input))
                              ELSE records
    /\ UNCHANGED loop_pc

\* the loop is exhausted: save_jsonl and return
CollectFinish ==
    /\ loop_pc = "running" /\ idx = MaxSamples
    /\ loop_pc' = "done"
    /\ UNCHANGED <<loop, idx, step, pending, records, call_count, outcome_log,
                   delay_seconds, sleeps, clientVars, notCollectVars>>

CollectNext ==
    \/ \E outcome \in CollectOutcomes : BiasCollectStep(outcome)
    \/ \E outcome \in CollectOutcomes : RobustnessCallOriginal(outcome)
    \/ \E outcome \in CollectOutcomes : RobustnessCallPerturbed(outcome)
    \/ \E outcome \in CollectOutcomes : ConsistencyCall(outcome)
    \/ CollectFinish

SpecCollect == CollectInit /\ [][CollectNext]_vars

\* what a record must hold for one call: the category of the call's outcome
CategoryOf(outcome) ==
    IF outcome.step = "post_raises" /\ outcome.exc = "ReadTimeout" THEN "timeout"
    ELSE IF outcome.step = "json" /\ outcome.data.json = "scalar" THEN "unknown_error"
    ELSE "success"

Categorized(output, outcome) ==
    IF CategoryOf(outcome) = "success"
    THEN "error_type" \notin DOMAIN output /\ "parsed" \in DOMAIN output
    ELSE "error_type" \in DOMAIN output /\ output.error_type = CategoryOf(outcome)

\* the outputs stored for sample k, in call order
StoredOutputs(l, rec) ==
    IF l = "bias_fairness" THEN <<rec.output>>
    ELSE IF l = "robustness" THEN <<rec.original_response, rec.perturbed_response>>
    ELSE [r \in 1..Len(rec.responses) |-> rec.responses[r].response]

\* C4: in the three collection loops, for every pattern of failing oracle
\* calls, the loop never aborts, every processed sample has exactly one record,
\* holding each of its calls' outcomes as a success or a categorized error, the
\* calls of every later sample are still issued, and the loop ends with one
\* record per sample.
C4_LoopContinues ==
    loop # "idle" =>
        /\ loop_pc \in {"running", "done"}
        /\ Len(records) = idx
        /\ Len(outcome_log) = idx * CallsPerSample(loop) + step
        /\ \A k \in 1..Len(records) :
              LET outs == StoredOutputs(loop, records[k]) IN
              /\ Len(outs) = CallsPerSample(loop)
              /\ \A c \in 1..Len(outs) :
                    Categorized(outs[c], outcome_log[(k - 1) * CallsPerSample(loop) + c])
        /\ loop_pc = "done" => Len(records) = MaxSamples
        /\ loop_pc = "running" =>
              \/ idx < MaxSamples /\ step < CallsPerSample(loop)   \* the next call is due
              \/ idx = MaxSamples /\ step = 0                      \* the loop is exhausted

\* A loop has ended although the call of its first sample failed and the
\* call of a later sample succeeded.
C4_Witness ==
    /\ loop # "idle" /\ loop_pc = "done"
    /\ CategoryOf(outcome_log[1]) # "success"
    /\ CategoryOf(outcome_log[Len(outcome_log)]) = "success"
    /\ Len(records) = MaxSamples /\ MaxSamples >= 2

\* the response record of the n-th call of the consistency loop
response_record(n) ==
    LET k == ((n - 1) \div NumRepeats) + 1
        r == ((n - 1) % NumRepeats) + 1
    IN  IF k <= Len(records) THEN records[k].responses[r] ELSE pending[r]

\* the calls before which the loop has slept
calls_after_sleep == {sleeps[i].calls_before + 1 : i \in 1..Len(sleeps)}

\* C21: in collect_consistency_responses the num_repeats calls of one profile
\* are issued consecutively with repeat_number 1..R, the delay is applied only
\* before repeats 2..R, no call of a later profile is issued before all calls
\* of the current one, and call_order increases by exactly 1 with each call.
C21_RepeatsInOrder ==
    loop = "consistency" =>
        /\ calls = idx * NumRepeats + step
        /\ Len(records) = idx /\ Len(pending) = step
        /\ \A k \in 1..Len(records) : Len(records[k].responses) = NumRepeats
        /\ Len(all_responses) = calls
        /\ \A n \in 1..calls :
              LET k == ((n - 1) \div NumRepeats) + 1
                  r == ((n - 1) % NumRepeats) + 1
              IN  /\ response_record(n).call_order = n
                  /\ response_record(n).repeat_number = r
                  /\ response_record(n).input_data = SampleRow(k)
                  /\ all_responses[n].input = construct_payload(SampleRow(k))
                  /\ all_responses[n].output = response_record(n).response
                  /\ n \in calls_after_sleep <=> (delay_seconds > 0 /\ r >= 2)
        /\ \A i \in 1..Len(sleeps) :
              /\ sleeps[i].repeat \in 1..(NumRepeats - 1)
              /\ sleeps[i].calls_before = sleeps[i].sample_index * NumRepeats + sleeps[i].repeat
              /\ sleeps[i].seconds = delay_seconds
              /\ \A j \in 1..Len(sleeps) : i < j => sleeps[i].calls_before < sleeps[j].calls_before

\* The consistency loop has ended with a delay between the repeats, after
\* the calls of two different profiles.
C21_Witness ==
    /\ loop = "consistency" /\ loop_pc = "done" /\ delay_seconds > 0
    /\ Len(records) >= 2 /\ records[1].input_data # records[2].input_data
    /\ Len(sleeps) = Len(records) * (NumRepeats - 1)
    /\ response_record(calls).call_order = Len(records) * NumRepeats

-----------------------------------------------------------------------------
(* The top-level run functions: run_bias_analysis, run_robustness_analysis, *)
(* run_consistency_analysis, run_transparency_analysis                      *)
(* The collection loop and the analysis a run function calls are taken by   *)
(* their outcome: the number of responses, and whether the analysis raises. *)

RunFunctions ==
    {"run_bias_analysis", "run_robustness_analysis",
     "run_consistency_analysis", "run_transparency_analysis"}

\* data/testdata.csv: no file, a file pandas cannot parse, or a table of rows
Datasets ==
    {[file |-> "missing"], [file |-> "unreadable"]}
    \cup {[file |-> "present", rows |-> n] : n \in 0..MaxSamples}

\* the engine's response file: absent, not JSON lines, or n stored records
Caches ==
    {[file |-> "absent"], [file |-> "corrupt"]}
    \cup {[file |-> "present", lines |-> n] : n \in 0..MaxSamples}

\* sample_size of run_transparency_analysis
sample_size == MaxSamples

ErrorResult(msg) == [error |-> msg]

RunInit ==
    /\ run_fn \in RunFunctions
    /\ run_pc = "start"
    /\ dataset \in Datasets
    /\ cache \in Caches
    /\ run_responses = 0
    /\ run_result = None
    /\ ParkedButRun

ReadCsvError(d) ==
    IF d.file = "missing" THEN "FileNotFoundError" ELSE "ParserError"

\* what leaves a run function when exc is raised in its body: the three
\* functions with try/except return {"error": str(e)}; run_bias_analysis has
\* no try and the exception escapes.
RunOnException(fn, exc) ==
    IF fn = "run_bias_analysis" THEN Raised(exc)
    ELSE ErrorResult(exc)

\* run_bias_analysis up to "responses = load_jsonl(response_path)"
BiasGetResponses ==
    IF dataset.file # "present"
    THEN [raises |-> ReadCsvError(dataset)]              \* pd.read_csv(dataset_path)
    ELSE IF cache.file = "absent"
    THEN [n |-> dataset.rows, cache |-> [file |-> "present", lines |-> dataset.rows]]
    ELSE IF cache.file = "corrupt"
    THEN [raises |-> "JSONDecodeError"]                  \* load_jsonl(response_path)
    ELSE [n |-> cache.lines, cache |-> cache]

\* run_robustness_analysis / run_consistency_analysis up to "if not responses":
\* the collect function returns [] when the dataset cannot be read.
CachedGetResponses ==
    IF cache.file = "corrupt" THEN [raises |-> "JSONDecodeError"]
    ELSE IF cache.file = "present" THEN [n |-> cache.lines, cache |-> cache]
    ELSE IF dataset.file # "present" THEN [n |-> 0, cache |-> cache]
    ELSE [n |-> dataset.rows, cache |-> [file |-> "present", lines |-> dataset.rows]]

\* collect_transparency_responses: a cache with enough records is used; a
\* cache that cannot be loaded is skipped; only FileNotFoundError of read_csv
\* is caught.
TransparencyGetResponses ==
    IF cache.file = "present" /\ cache.lines >= sample_size
    THEN [n |-> sample_size, cache |-> cache]
    ELSE IF dataset.file = "missing" THEN [n |-> 0, cache |-> cache]
    ELSE IF dataset.file = "unreadable" THEN [raises |-> "ParserError"]
    ELSE LET n == Min(sample_size, dataset.rows) IN
         [n |-> n, cache |-> [file |-> "present", lines |-> n]]

GetResponses(fn) ==
    IF fn = "run_bias_analysis" THEN BiasGetResponses
    ELSE IF fn = "run_transparency_analysis" THEN TransparencyGetResponses
    ELSE CachedGetResponses

NoResponsesMessage(fn) ==
    IF fn = "run_robustness_analysis" THEN "No responses collected"
    ELSE IF fn = "run_consistency_analysis" THEN "No consistency data collected"
    ELSE "No responses collected for transparency analysis"

\* The run function loads or collects its responses.
RunGetResponses ==
    /\ run_pc = "start"
    /\ LET got == GetResponses(run_fn) IN
        IF "raises" \in DOMAIN got
        THEN /\ run_result' = RunOnException(run_fn, got.raises)
             /\ run_pc' = IF IsRaised(run_result') THEN "raised" ELSE "returned"
             /\ UNCHANGED <<cache, run_responses>>
        ELSE IF got.n = 0 /\ run_fn # "run_bias_analysis"
        THEN \* if not responses: return {"error": ...}
             /\ run_result' = ErrorResult(NoResponsesMessage(run_fn))
             /\ run_pc' = "returned"
             /\ cache' = got.cache
             /\ UNCHANGED run_responses
        ELSE /\ run_responses' = got.n
             /\ cache' = got.cache
             /\ run_pc' = "responses"
             /\ UNCHANGED run_result
    /\ UNCHANGED <<run_fn, dataset, notRunVars>>

\* The analysis of the responses: it returns its results, or raises.
RunAnalyze(analysis_raises) ==
    /\ run_pc = "responses"
    /\ IF analysis_raises
       THEN /\ run_result' = RunOnException(run_fn, "AttributeError")
            /\ run_pc' = IF IsRaised(run_result') THEN "raised" ELSE "returned"
       ELSE /\ run_result' = [total_responses |-> run_responses]
            /\ run_pc' = "returned"
    /\ UNCHANGED <<run_fn, dataset, cache, run_responses, notRunVars>>

RunNext ==
    \/ RunGetResponses
    \/ \E analysis_raises \in BOOLEAN : RunAnalyze(analysis_raises)

SpecRun == RunInit /\ [][RunNext]_vars

\* C5: no top-level run function lets an exception escape; when the run cannot
\* proceed because the dataset file is missing (and no responses are cached)
\* it returns a mapping containing an 'error' string.
C5_RunNeverRaises ==
    run_pc \in {"returned", "raised"} =>
        /\ ~IsRaised(run_result)
        /\ (dataset.file = "missing" /\ cache.file = "absent") =>
                "error" \in DOMAIN run_result

\* The three run functions that wrap their body in try/except do satisfy C5.
C5_TryWrappedRunsNeverRaise ==
    (run_fn # "run_bias_analysis" /\ run_pc \in {"returned", "raised"}) =>
        /\ ~IsRaised(run_result)
        /\ (dataset.file = "missing" /\ cache.file = "absent") =>
                "error" \in DOMAIN run_result

-----------------------------------------------------------------------------
(* analysis/bias_fairness.py: counterfactual_fairness and the counterfactual *)
(* part of run_bias_analysis                                                *)

PROTECTED_ATTRIBUTES ==
    <<"gender", "ethnicity", "nationality", "disability_status", "marital_status">>

\* Rows of data/testdata.csv; None stands for an empty cell (NaN).
BiasRow(name, income, gender, ethnicity) ==
    [name |-> Str(name), income |-> Num(income), gender |-> gender, ethnicity |-> ethnicity]

BiasTable ==
    << BiasRow(<<"A", "n", "n">>, 100000, Str(<<"f", "e", "m", "a", "l", "e">>), None),
       BiasRow(<<"B", "o", "b">>, 20000, Str(<<"m", "a", "l", "e">>), Str(<<"x">>)),
       BiasRow(<<"C", "y">>, 50000, Str(<<"o", "t", "h", "e", "r">>), Str(<<"y">>)),
       BiasRow(<<"D", "i">>, 70000, Str(<<"o", "t", "h", "e", "r">>), Str(<<"y">>)) >>

\* Bound on the number of rows of the dataset.
MaxRows == 3

\* the datasets explored: the runs of consecutive rows of BiasTable
BiasDatasets ==
    { SubSeq(BiasTable, i, j) :
        i \in 1..Len(BiasTable), j \in 0..Len(BiasTable) } \cap
    UNION { [1..n -> {BiasTable[k] : k \in 1..Len(BiasTable)}] : n \in 0..MaxRows }

\* df[attr].dropna().unique().tolist(): the non-null values in order of first
\* appearance
RECURSIVE unique_vals(_, _)
unique_vals(table, attr) ==
    IF table = <<>> THEN <<>>
    ELSE LET before == unique_vals(SubSeq(table, 1, Len(table) - 1), attr)
             v == table[Len(table)][attr]
         IN  IF IsNone(v) \/ InSeq(v, before) THEN before ELSE Append(before, v)

\* df.sample(n=min(sample_size, len(df)), random_state=42): the seeded sample
\* is a fixed permutation of the rows; it is taken in the order of the table.
sample_df(table, n) == SubSeq(table, 1, Min(n, Len(table)))

\* The oracle answers met by the counterfactual test.
CfOutcomes ==
    { [step |-> "json", status_code |-> 200, data |-> NewFormat(Num(80), Str(T_Good), None)],
      [step |-> "json", status_code |-> 200, data |-> NewFormat(Num(75), Str(T_Good), None)],
      [step |-> "json", status_code |-> 200, data |-> NewFormat(Num(30), Str(T_Poor), None)],
      [step |-> "json", status_code |-> 200, data |-> NewFormat(None, None, None)],
      [step |-> "post_raises", exc |-> "ReadTimeout", detail |-> <<"R", "e", "a", "d", " ", "t", "i", "m", "e", "d", " ", "o", "u", "t">>] }

\* response.get("parsed", {}), then .get("classification") and .get("credit_score")
parsed_of(resp) == GetOr(resp, "parsed", EmptyDict)
classification_of(resp) == Get(parsed_of(resp), "classification")
credit_score_of(resp) == Get(parsed_of(resp), "credit_score")

\* the alternates of a row: "for alt_value in values: if alt_value == original_value: continue"
alternates(values, original_value) ==
    SelectSeq(values, LAMBDA v : v # original_value)

is_violation_between_answers(original, cf_classification, cf_score) ==
    LET classification_changed ==
            ~IsNone(cf_classification) /\ original.classification # cf_classification
        score_changed ==
            /\ IsNum(original.credit_score) /\ IsNum(cf_score)
            /\ LET d == original.credit_score.num - cf_score.num
               IN  (IF d < 0 THEN -d ELSE d) >= 10
    IN  classification_changed \/ score_changed

\* classification_changed or score_changed
is_violation(original, cf_classification, cf_score) ==
    LET classification_changed == original.classification # cf_classification
        score_changed ==
            /\ IsNum(original.credit_score) /\ IsNum(cf_score)
            /\ LET d == original.credit_score.num - cf_score.num
               IN  (IF d < 0 THEN -d ELSE d) >= 10
    IN  classification_changed \/ score_changed

\* a ratio a/b, held as the fraction
Ratio(a, b) == [num |-> a, den |-> b]
RatioGt(r, a, b) == r.num * b > a * r.den    \* r > a/b, for positive den and b

bias_level(ratio) ==
    IF RatioGt(ratio, 5, 100) THEN "HIGH" ELSE IF RatioGt(ratio, 1, 100) THEN "LOW" ELSE "MINIMAL"

total_tests_counting_values(rows, values) == rows * Len(values)

\* total_tests = total_rows * (len(values) - 1)
total_tests_of(rows, values) == rows * (Len(values) - 1)

counterfactual_result(rows, violations, values, sample) ==
    LET total_tests == total_tests_of(rows, values)
        ratio == IF total_tests > 0 THEN Ratio(violations, total_tests) ELSE Ratio(0, 1)
    IN  [total_rows |-> rows,
         total_tests |-> total_tests,
         violations |-> violations,
         violation_ratio |-> ratio,
         sample_size |-> Len(sample),
         bias_level |-> bias_level(ratio)]

insufficient_domain_marker ==
    [violation_ratio |-> None, note |-> "Not enough distinct values for counterfactuals"]

\* sample_size passed by run_bias_analysis
CF_SAMPLE_SIZE == 200

CfSample == sample_df(df, CF_SAMPLE_SIZE)

CfInit ==
    /\ df \in BiasDatasets
    /\ protected_attr \in {"gender", "ethnicity"}
    /\ cf_values = <<>> /\ cf_pc = "attr"
    /\ cf_idx = 0 /\ cf_alt = 0 /\ cf_original = None /\ cf_sent = <<>>
    /\ cf_input_data = None /\ cf_last_response = None
    /\ total_rows = 0 /\ total_violations = 0 /\ cf_calls = 0 /\ cf_result = None
    /\ ParkedButCf

enough_values_from_one(vals) == Len(vals) >= 1

\* if len(unique_vals) >= 2
enough_values(vals) == Len(vals) >= 2

\* run_bias_analysis, lines 300-313: counterfactuals only with >= 2 values
CfStartAttribute ==
    /\ cf_pc = "attr"
    /\ LET vals == unique_vals(df, protected_attr) IN
        /\ cf_values' = vals
        /\ IF enough_values(vals)
           THEN /\ cf_pc' = "row" /\ UNCHANGED cf_result
           ELSE /\ cf_pc' = "done" /\ cf_result' = insufficient_domain_marker
    /\ UNCHANGED <<df, protected_attr, cf_idx, cf_alt, cf_original, cf_sent, cf_input_data,
                   cf_last_response, total_rows, total_violations, cf_calls, notCfVars>>

\* the end of one row's iteration: total_rows += 1
CfRowDone == /\ total_rows' = total_rows + 1
             /\ cf_idx' = cf_idx + 1
             /\ cf_pc' = "row"

\* counterfactual_fairness: the start of one row's iteration, up to and
\* including the call with the original input.
CfOriginalCall(outcome) ==
    /\ cf_pc = "row" /\ cf_idx < Len(CfSample)
    /\ LET input_data == CfSample[cf_idx + 1]
           original_value == input_data[protected_attr]
           original_response == send_request_result(input_data, outcome)
           original == [classification |-> classification_of(original_response),
                        credit_score |-> credit_score_of(original_response)]
       IN
        IF ~InSeq(original_value, cf_values)
        THEN \* continue, before any call
             /\ cf_idx' = cf_idx + 1
             /\ cf_sent' = <<>>
             /\ UNCHANGED <<cf_pc, cf_original, cf_last_response, total_rows>>
        ELSE IF IsNone(original.classification) /\ IsNone(original.credit_score)
        THEN \* continue: no usable original decision
             /\ cf_idx' = cf_idx + 1
             /\ cf_sent' = <<input_data>>
             /\ cf_last_response' = original_response
             /\ UNCHANGED <<cf_pc, cf_original, total_rows>>
        ELSE /\ cf_original' = original
             /\ cf_sent' = <<input_data>>
             /\ cf_last_response' = original_response
             /\ IF alternates(cf_values, original_value) = <<>>
                THEN CfRowDone
                ELSE cf_pc' = "alts" /\ UNCHANGED <<cf_idx, total_rows>>
    /\ cf_input_data' = CfSample[cf_idx + 1]
    /\ cf_alt' = 0
    /\ UNCHANGED <<df, protected_attr, cf_values, total_violations, cf_calls,
                   cf_result, notCfVars>>

counterfactual_in_place(input_data, attr, alt_value) ==
    [input_data |-> [input_data EXCEPT ![attr] = alt_value],
     cf_input |-> [input_data EXCEPT ![attr] = alt_value]]

\* cf_input = input_data.copy(); cf_input[protected_attr] = alt_value: the
\* two dicts after the assignment
counterfactual_input(input_data, attr, alt_value) ==
    [input_data |-> input_data,
     cf_input |-> [input_data EXCEPT ![attr] = alt_value]]

\* counterfactual_fairness: one iteration of "for alt_value in values" that
\* sends a counterfactual
CfAlternateCall(outcome) ==
    /\ cf_pc = "alts"
    /\ LET alts == alternates(cf_values, CfSample[cf_idx + 1][protected_attr])
           alt_value == alts[cf_alt + 1]
           built == counterfactual_input(cf_input_data, protected_attr, alt_value)
           cf_input == built.cf_input
           cf_response == send_request_result(cf_input, outcome)
       IN
        /\ cf_input_data' = built.input_data
        /\ cf_last_response' = cf_response
        /\ cf_sent' = Append(cf_sent, cf_input)
        /\ cf_calls' = cf_calls + 1
        /\ total_violations' =
              IF is_violation(cf_original, classification_of(cf_response),
                              credit_score_of(cf_response))
              THEN total_violations + 1 ELSE total_violations
        /\ IF cf_alt + 1 < Len(alts)
           THEN /\ cf_alt' = cf_alt + 1
                /\ UNCHANGED <<cf_pc, cf_idx, total_rows>>
           ELSE /\ cf_alt' = 0
                /\ CfRowDone
    /\ UNCHANGED <<df, protected_attr, cf_values, cf_original, cf_result, notCfVars>>

\* counterfactual_fairness: after the loop
CfFinish ==
    /\ cf_pc = "row" /\ cf_idx = Len(CfSample)
    /\ cf_result' = counterfactual_result(total_rows, total_violations, cf_values, CfSample)
    /\ cf_pc' = "done"
    /\ UNCHANGED <<df, protected_attr, cf_values, cf_idx, cf_alt, cf_original, cf_sent,
                   cf_input_data, cf_last_response, total_rows, total_violations, cf_calls,
                   notCfVars>>

CfNext ==
    \/ CfStartAttribute
    \/ \E outcome \in CfOutcomes : CfOriginalCall(outcome)
    \/ \E outcome \in CfOutcomes : CfAlternateCall(outcome)
    \/ CfFinish

SpecCounterfactual == CfInit /\ [][CfNext]_vars

\* C8: counterfactual_fairness returns violation_ratio = violations /
\* total_tests, where total_tests = (rows actually tested) * (number of domain
\* values - 1) is the number of counterfactual comparisons made, and
\* 0 <= violations <= total_tests; the ratio is 0.0 when total_tests is 0.
C8_ViolationRatio ==
    (cf_pc = "done" /\ Len(cf_values) >= 2) =>
        /\ cf_result.total_tests = cf_result.total_rows * (Len(cf_values) - 1)
        /\ cf_result.total_tests = cf_calls
        /\ cf_result.violations >= 0
        /\ cf_result.violations <= cf_result.total_tests
        /\ cf_result.total_tests > 0 =>
              /\ cf_result.violation_ratio.den > 0
              /\ cf_result.violation_ratio.num * cf_result.total_tests
                    = cf_result.violations * cf_result.violation_ratio.den
        /\ cf_result.total_tests = 0 => cf_result.violation_ratio.num = 0

\* One profile was tested against two alternate values and its decision
\* changed for exactly one of them: the ratio returned is 1/2.
C8_Witness ==
    /\ cf_pc = "done" /\ Len(cf_values) = 3
    /\ cf_result.total_rows = 1 /\ cf_result.violations = 1
    /\ cf_result.violation_ratio.num * 2 = cf_result.violation_ratio.den

\* C9: for a protected attribute with fewer than 2 distinct non-null values in
\* the dataset, no counterfactual oracle call is made and the attribute's
\* counterfactual_fairness result is the insufficient-domain marker, with
\* violation_ratio null and a note, not a ratio of 0.
C9_InsufficientDomain ==
    (cf_pc # "attr"
        /\ Cardinality({df[i][protected_attr] : i \in 1..Len(df)} \ {None}) < 2) =>
        /\ cf_pc = "done"
        /\ cf_calls = 0 /\ cf_sent = <<>>
        /\ cf_result.violation_ratio = None
        /\ "note" \in DOMAIN cf_result
        /\ "total_tests" \notin DOMAIN cf_result

\* A dataset of two rows that share one gender has been analysed for gender.
C9_Witness ==
    /\ cf_pc = "done" /\ protected_attr = "gender"
    /\ Len(df) = 2 /\ df[1].gender = df[2].gender /\ ~IsNone(df[1].gender)
    /\ cf_result.violation_ratio = None

\* the row whose inputs cf_sent holds
tested_row == CfSample[IF cf_pc = "alts" THEN cf_idx + 1 ELSE cf_idx]

\* the counterfactual inputs sent for the row so far
counterfactuals_sent == SubSeq(cf_sent, 2, Len(cf_sent))

\* C23: in counterfactual_fairness, for each tested row exactly one
\* counterfactual input is sent per domain value different from the row's own
\* value; each counterfactual input equals the original input in every field
\* except the target protected attribute, and the original input is left
\* unchanged by building the counterfactuals.
C23_OnlyTargetAttributeChanges ==
    [][ cf_sent' # <<>> =>
          /\ cf_sent'[1] = tested_row'
          /\ cf_input_data' = tested_row'
          /\ \A k \in 1..Len(counterfactuals_sent') :
                /\ DOMAIN counterfactuals_sent'[k] = DOMAIN tested_row'
                /\ \A f \in DOMAIN tested_row' \ {protected_attr} :
                      counterfactuals_sent'[k][f] = tested_row'[f]
                /\ counterfactuals_sent'[k][protected_attr] # tested_row'[protected_attr]
                /\ InSeq(counterfactuals_sent'[k][protected_attr], cf_values)
                /\ \A j \in 1..Len(counterfactuals_sent') :
                      counterfactuals_sent'[j][protected_attr]
                         = counterfactuals_sent'[k][protected_attr] => j = k
          /\ total_rows' = total_rows + 1 =>
                \A i \in 1..Len(cf_values) :
                    cf_values[i] # tested_row'[protected_attr] =>
                        \E k \in 1..Len(counterfactuals_sent') :
                            counterfactuals_sent'[k][protected_attr] = cf_values[i] ]_vars

\* A row has been tested against two alternate values of its attribute.
C23_Witness ==
    /\ cf_pc = "row" /\ total_rows >= 1 /\ Len(cf_values) = 3
    /\ Len(cf_sent) = 3 /\ cf_input_data = cf_sent[1]
    /\ cf_sent[2][protected_attr] # cf_sent[3][protected_attr]

\* a response with neither a parsed classification nor a parsed score
no_decision(resp) == IsNone(classification_of(resp)) /\ IsNone(credit_score_of(resp))

\* C30: a counterfactual call that returns no parsed classification is counted
\* as a violation whenever the original response had a classification, and it
\* still counts in total_tests; a row whose original call returns neither
\* classification nor score is skipped and adds nothing to total_rows,
\* total_tests or violations.
C30_FailedCounterfactualIsViolation ==
    [][ /\ (cf_calls' = cf_calls + 1 /\ IsNone(classification_of(cf_last_response'))
            /\ ~IsNone(cf_original.classification))
            => total_violations' = total_violations + 1
        /\ (cf_pc = "row" /\ cf_idx < Len(CfSample) /\ cf_sent' # <<>>
            /\ no_decision(cf_last_response'))
            => /\ cf_pc' = "row" /\ cf_idx' = cf_idx + 1
               /\ total_rows' = total_rows /\ total_violations' = total_violations
               /\ cf_calls' = cf_calls
        /\ (cf_pc' = "done" /\ Len(cf_values) >= 2)
            => /\ cf_result'.total_rows = total_rows
               /\ cf_result'.violations = total_violations
               /\ cf_result'.total_tests = cf_calls ]_vars

\* The test has ended with one row of several tested; the row was answered
\* with a classification and its last counterfactual call failed and was
\* counted.
C30_Witness ==
    /\ cf_pc = "done" /\ Len(CfSample) >= 2 /\ Len(cf_values) >= 2
    /\ cf_original # None /\ cf_last_response # None
    /\ cf_result.total_rows = 1 /\ cf_result.violations >= 1
    /\ cf_result.total_tests = Len(cf_values) - 1
    /\ "error_type" \in DOMAIN cf_last_response
    /\ IsNone(classification_of(cf_last_response))
    /\ ~IsNone(cf_original.classification)

-----------------------------------------------------------------------------
(* analysis/bias_fairness.py: disparate_impact_ratio *)

\* Bound on a group's total in the mappings handed to disparate_impact_ratio.
MaxTotal == 2

GroupNames == {"female", "male", "other"}

GroupStats == { [total |-> t, positive |-> p] : t \in 0..MaxTotal, p \in 0..MaxTotal }

\* the group mappings explored: any groups, each with 0 <= positive <= total
GroupMappings ==
    UNION { [S -> {g \in GroupStats : g.positive <= g.total}] : S \in SUBSET GroupNames }

rates_of_all_groups(g) ==
    [name \in DOMAIN g |-> Ratio(g[name].positive, Max(g[name].total, 1))]

\* rates = {group: positive / total for groups with total > 0}, each rate held
\* as the fraction
rates_of(g) ==
    [name \in {n \in DOMAIN g : g[n].total > 0} |-> Ratio(g[name].positive, g[name].total)]

RatioLe(r, q) == r.num * q.den <= q.num * r.den     \* r <= q, positive dens

\* max(rates.values()), min(rates.values())
max_rate(rates) ==
    LET n == CHOOSE n \in DOMAIN rates : \A k \in DOMAIN rates : RatioLe(rates[k], rates[n])
    IN  rates[n]
min_rate(rates) ==
    LET n == CHOOSE n \in DOMAIN rates : \A k \in DOMAIN rates : RatioLe(rates[n], rates[k])
    IN  rates[n]

disparate_impact_ratio(g) ==
    LET rates == rates_of(g) IN
    IF DOMAIN rates = {} THEN Ratio(0, 1)
    ELSE LET hi == max_rate(rates)
             lo == min_rate(rates)
         IN  IF hi.num > 0
             THEN Ratio(lo.num * hi.den, lo.den * hi.num)   \* min_rate / max_rate
             ELSE Ratio(0, 1)

DiInit ==
    /\ groups \in GroupMappings
    /\ di_ratio = None
    /\ ParkedButDi

DisparateImpactRatio ==
    /\ di_ratio = None
    /\ di_ratio' = disparate_impact_ratio(groups)
    /\ UNCHANGED <<groups, notDiVars>>

DiNext == DisparateImpactRatio

SpecDisparate == DiInit /\ [][DiNext]_vars

-----------------------------------------------------------------------------
(* analysis/robustness.py, analysis/consistency.py: reading a stored response *)

Abs(n) == IF n < 0 THEN -n ELSE n

RECURSIVE GCD(_, _)
GCD(a, b) == IF b = 0 THEN a ELSE GCD(b, a % b)
LCM(a, b) == (a \div GCD(a, b)) * b

\* fractions with positive denominators, kept in lowest terms
Reduced(r) == Ratio(r.num \div GCD(Abs(r.num), r.den), r.den \div GCD(Abs(r.num), r.den))
RatioAdd(r, q) ==
    LET l == LCM(r.den, q.den) IN Reduced(Ratio(r.num * (l \div r.den) + q.num * (l \div q.den), l))
RatioAbsDiff(r, q) ==
    LET l == LCM(r.den, q.den)
    IN  Reduced(Ratio(Abs(r.num * (l \div r.den) - q.num * (l \div q.den)), l))
RatioSub(r, q) ==
    LET l == LCM(r.den, q.den) IN Reduced(Ratio(r.num * (l \div r.den) - q.num * (l \div q.den), l))
RatioMul(r, q) == Reduced(Ratio(r.num * q.num, r.den * q.den))
RatioEq(r, q) == r.num * q.den = q.num * r.den

\* max(0, min(1, r))
ClampUnit(r) == IF r.num < 0 THEN Ratio(0, 1) ELSE IF r.num > r.den THEN Ratio(1, 1) ELSE r
RatioInUnit(r) == 0 <= r.num /\ r.num <= r.den

\* a decision label ("good", "poor", "average"); no decision is None
Label(d) == [label |-> d]

RECURSIVE Pow10(_)
Pow10(n) == IF n = 0 THEN 1 ELSE 10 * Pow10(n - 1)

\* the last position of the run of digits that starts at position i of t
RECURSIVE DigitRunEnd(_, _)
DigitRunEnd(t, i) ==
    IF i < Len(t) /\ IsDigit(t[i + 1]) THEN DigitRunEnd(t, i + 1) ELSE i

FirstOf(S) == CHOOSE i \in S : \A k \in S : i <= k

\* float(group) / 100.0 for the match of (\d+)% that starts first, or None
percent_integer_among(t, hits) ==
    IF hits = {} THEN None
    ELSE Ratio(TextToNat(SubSeq(t, FirstOf(hits), DigitRunEnd(t, FirstOf(hits)))), 100)

\* re.findall(r'(\d+)%', t)[0] as float(...) / 100.0, or None without a match
percent_integer(t) ==
    percent_integer_among(t, {i \in 1..Len(t) :
                                 /\ IsDigit(t[i])
                                 /\ DigitRunEnd(t, i) < Len(t)
                                 /\ t[DigitRunEnd(t, i) + 1] = "%"})

\* where (\d+(?:\.\d+)?)% matched from position i ends (before the %), 0 when
\* it does not match there; j is the end of the digits that start at i
decimal_end_after(t, j) ==
    IF /\ j + 2 <= Len(t) /\ t[j + 1] = "." /\ IsDigit(t[j + 2])
       /\ DigitRunEnd(t, j + 2) < Len(t) /\ t[DigitRunEnd(t, j + 2) + 1] = "%"
    THEN DigitRunEnd(t, j + 2)
    ELSE IF j < Len(t) /\ t[j + 1] = "%" THEN j ELSE 0
decimal_end(t, i) == decimal_end_after(t, DigitRunEnd(t, i))

\* float("<digits>[.<digits>]") / 100.0; j is the end of the integer part
decimal_percent_split(t, j) ==
    IF j = Len(t) THEN Ratio(TextToNat(t), 100)
    ELSE Ratio(TextToNat(SubSeq(t, 1, j) \o SubSeq(t, j + 2, Len(t))),
               100 * Pow10(Len(t) - j - 1))
decimal_percent(t) == decimal_percent_split(t, DigitRunEnd(t, 1))

percent_decimal_among(t, hits) ==
    IF hits = {} THEN None
    ELSE decimal_percent(SubSeq(t, FirstOf(hits), decimal_end(t, FirstOf(hits))))

\* re.findall(r'(\d+(?:\.\d+)?)%', t)[0] as float(...) / 100.0, or None
percent_decimal(t) ==
    percent_decimal_among(t, {i \in 1..Len(t) : IsDigit(t[i]) /\ decimal_end(t, i) > 0})

score_match_among(t, hits) ==
    IF hits = {} THEN None
    ELSE Num(TextToNat(SubSeq(t, FirstOf(hits) + 6, DigitRunEnd(t, FirstOf(hits) + 6))))

\* re.search(r'score:(\d+)', t): int(group(1)), or None without a match
score_match(t) ==
    score_match_among(t, {i \in 1..Len(t) :
                             MatchAt(<<"s", "c", "o", "r", "e", ":">>, t, i) /\ i + 6 <= Len(t) /\ IsDigit(t[i + 6])})

calculate_confidence_uncapped(credit_score) ==
    IF IsNone(credit_score) THEN None
    ELSE Ratio(50 + Abs(credit_score.num - 50), 100)

\* calculate_confidence_from_score of robustness.py, and its copy in
\* consistency.py: min(0.5 + abs(score - 50) / 50 * 0.5, 1.0)
calculate_confidence_from_score(credit_score) ==
    IF IsNone(credit_score) THEN None
    ELSE Ratio(Min(50 + Abs(credit_score.num - 50), 100), 100)

\* the keys of the dicts that get printed, in the order the code (or the
\* gateway's JSON) writes them, with their text
TopLevelOrder ==
    <<[key |-> "name", text |-> <<"n", "a", "m", "e">>],
      [key |-> "income", text |-> <<"i", "n", "c", "o", "m", "e">>],
      [key |-> "employment_status", text |-> <<"e", "m", "p", "l", "o", "y", "m", "e", "n", "t", "_", "s", "t", "a", "t", "u", "s">>],
      [key |-> "employment_duration_years", text |-> <<"e", "m", "p", "l", "o", "y", "m", "e", "n", "t", "_", "d", "u", "r", "a", "t", "i", "o", "n", "_", "y", "e", "a", "r", "s">>],
      [key |-> "existing_loans", text |-> <<"e", "x", "i", "s", "t", "i", "n", "g", "_", "l", "o", "a", "n", "s">>],
      [key |-> "loan_amount", text |-> <<"l", "o", "a", "n", "_", "a", "m", "o", "u", "n", "t">>],
      [key |-> "credit_limit", text |-> <<"c", "r", "e", "d", "i", "t", "_", "l", "i", "m", "i", "t">>],
      [key |-> "used_credit", text |-> <<"u", "s", "e", "d", "_", "c", "r", "e", "d", "i", "t">>],
      [key |-> "payment_defaults", text |-> <<"p", "a", "y", "m", "e", "n", "t", "_", "d", "e", "f", "a", "u", "l", "t", "s">>],
      [key |-> "credit_inquiries_last_6_months", text |-> <<"c", "r", "e", "d", "i", "t", "_", "i", "n", "q", "u", "i", "r", "i", "e", "s", "_", "l", "a", "s", "t", "_", "6", "_", "m", "o", "n", "t", "h", "s">>],
      [key |-> "housing_status", text |-> <<"h", "o", "u", "s", "i", "n", "g", "_", "s", "t", "a", "t", "u", "s">>],
      [key |-> "address_stability_years", text |-> <<"a", "d", "d", "r", "e", "s", "s", "_", "s", "t", "a", "b", "i", "l", "i", "t", "y", "_", "y", "e", "a", "r", "s">>],
      [key |-> "household_size", text |-> <<"h", "o", "u", "s", "e", "h", "o", "l", "d", "_", "s", "i", "z", "e">>]>>

ProtectedOrder ==
    <<[key |-> "age", text |-> <<"a", "g", "e">>],
      [key |-> "gender", text |-> <<"g", "e", "n", "d", "e", "r">>],
      [key |-> "nationality", text |-> <<"n", "a", "t", "i", "o", "n", "a", "l", "i", "t", "y">>],
      [key |-> "ethnicity", text |-> <<"e", "t", "h", "n", "i", "c", "i", "t", "y">>],
      [key |-> "disability_status", text |-> <<"d", "i", "s", "a", "b", "i", "l", "i", "t", "y", "_", "s", "t", "a", "t", "u", "s">>],
      [key |-> "education_level", text |-> <<"e", "d", "u", "c", "a", "t", "i", "o", "n", "_", "l", "e", "v", "e", "l">>],
      [key |-> "marital_status", text |-> <<"m", "a", "r", "i", "t", "a", "l", "_", "s", "t", "a", "t", "u", "s">>],
      [key |-> "postal_code", text |-> <<"p", "o", "s", "t", "a", "l", "_", "c", "o", "d", "e">>],
      [key |-> "language_preference", text |-> <<"l", "a", "n", "g", "u", "a", "g", "e", "_", "p", "r", "e", "f", "e", "r", "e", "n", "c", "e">>]>>

RawOrder ==
    <<[key |-> "detail", text |-> <<"d", "e", "t", "a", "i", "l">>],
      [key |-> "message", text |-> <<"m", "e", "s", "s", "a", "g", "e">>]>>

ErrorTypeText ==
    [http_error |-> <<"h", "t", "t", "p", "_", "e", "r", "r", "o", "r">>, timeout |-> <<"t", "i", "m", "e", "o", "u", "t">>,
     connection_error |-> <<"c", "o", "n", "n", "e", "c", "t", "i", "o", "n", "_", "e", "r", "r", "o", "r">>, request_error |-> <<"r", "e", "q", "u", "e", "s", "t", "_", "e", "r", "r", "o", "r">>,
     unknown_error |-> <<"u", "n", "k", "n", "o", "w", "n", "_", "e", "r", "r", "o", "r">>]

\* repr() of None, an int or a str (a str without quotes in it)
repr_value(v) ==
    IF IsNone(v) THEN <<"N", "o", "n", "e">>
    ELSE IF IsNum(v) THEN IntToText(v.num)
    ELSE <<"'">> \o v.str \o <<"'">>

\* the printed items so far, and the item of one more key when d holds it
repr_item(before, entry, d) ==
    IF entry.key \notin DOMAIN d THEN before
    ELSE (IF before = <<>> THEN <<>> ELSE before \o <<",", " ">>)
         \o <<"'">> \o entry.text \o <<"'", ":", " ">> \o repr_value(d[entry.key])

\* "'k': v, 'k2': v2" for the first n keys of the order that d holds
RECURSIVE repr_items(_, _, _)
repr_items(d, order, n) ==
    IF n = 0 THEN <<>> ELSE repr_item(repr_items(d, order, n - 1), order[n], d)

\* str() of the payload construct_payload built; the configured model name
\* prints as MODEL
repr_payload(p) ==
    <<"{">> \o repr_items(p.fields, TopLevelOrder, Len(TopLevelOrder))
    \o <<",", " ", "'", "p", "r", "o", "t", "e", "c", "t", "e", "d", "_", "a", "t", "t", "r", "i", "b", "u", "t", "e", "s", "'", ":", " ">> \o <<"{">>
    \o repr_items(p.protected_attributes, ProtectedOrder, Len(ProtectedOrder)) \o <<"}">>
    \o <<",", " ", "'", "s", "c", "o", "r", "i", "n", "g", "_", "p", "a", "r", "a", "m", "e", "t", "e", "r", "s", "'", ":", " ">> \o <<"{">>
    \o <<"'", "m", "o", "d", "e", "l", "'", ":", " ", "'", "M", "O", "D", "E", "L", "'", ",", " ", "'", "t", "e", "m", "p", "e", "r", "a", "t", "u", "r", "e", "'", ":", " ", "0", ".", "1", ",", " ", "'", "t", "o", "p", "_", "p", "'", ":", " ", "1", ",", " ", "'", "m", "a", "x", "_", "t", "o", "k", "e", "n", "s", "'", ":", " ", "5", "1", "2", ",", " ">>
    \o <<"'", "p", "r", "e", "s", "e", "n", "c", "e", "_", "p", "e", "n", "a", "l", "t", "y", "'", ":", " ", "0", ",", " ", "'", "f", "r", "e", "q", "u", "e", "n", "c", "y", "_", "p", "e", "n", "a", "l", "t", "y", "'", ":", " ", "0", ",", " ", "'", "s", "e", "e", "d", "'", ":", " ", "0">> \o <<"}", "}">>

\* str() of a failure record of send_request
repr_failure(r) ==
    <<"{">> \o <<"'", "e", "r", "r", "o", "r", "_", "t", "y", "p", "e", "'", ":", " ", "'">> \o ErrorTypeText[r.error_type]
    \o <<"'", ",", " ", "'", "e", "r", "r", "o", "r", "'", ":", " ", "'">> \o r.error \o <<"'">>
    \o (IF "status_code" \in DOMAIN r
        THEN <<",", " ", "'", "s", "t", "a", "t", "u", "s", "_", "c", "o", "d", "e", "'", ":", " ">> \o repr_value(r.status_code) ELSE <<>>)
    \o <<",", " ", "'", "p", "a", "y", "l", "o", "a", "d", "'", ":", " ">> \o repr_payload(r.payload) \o <<"}">>

\* str(response["raw_response"]) of a JSON object of string fields
repr_raw(data) == <<"{">> \o repr_items(data.fields, RawOrder, Len(RawOrder)) \o <<"}">>

\* Python truthiness of a parsed field / of the parsed dict
Truthy(v) == ~IsNone(v) /\ (IsStr(v) => Len(v.str) > 0) /\ (IsNum(v) => v.num # 0)
HasParsed(r) == "parsed" \in DOMAIN r /\ DOMAIN r.parsed # {}

\* " ".join(parts) if parts else "no_data", for at most three parts
join_parts(parts) ==
    IF parts = <<>> THEN <<"n", "o", "_", "d", "a", "t", "a">>
    ELSE IF Len(parts) = 1 THEN parts[1]
    ELSE IF Len(parts) = 2 THEN parts[1] \o <<" ">> \o parts[2]
    ELSE parts[1] \o <<" ">> \o parts[2] \o <<" ">> \o parts[3]

score_part(parsed) ==
    IF "credit_score" \in DOMAIN parsed /\ ~IsNone(parsed["credit_score"])
    THEN <<<<"s", "c", "o", "r", "e", ":">> \o PyStr(parsed["credit_score"])>> ELSE <<>>

class_part(parsed) ==
    IF "classification" \in DOMAIN parsed /\ Truthy(parsed["classification"])
    THEN <<<<"c", "l", "a", "s", "s", ":">> \o PyStr(parsed["classification"])>> ELSE <<>>

\* the explanation is cut to its first cut characters (0: not cut)
reason_part(parsed, cut) ==
    IF "explanation" \in DOMAIN parsed /\ Truthy(parsed["explanation"])
    THEN <<<<"r", "e", "a", "s", "o", "n", ":">> \o
           (IF cut > 0
            THEN SubSeq(parsed["explanation"].str, 1, Min(cut, Len(parsed["explanation"].str)))
            ELSE PyStr(parsed["explanation"]))>>
    ELSE <<>>

\* the text both engines build from a parsed dict
structured_text(parsed, cut) ==
    join_parts(score_part(parsed) \o class_part(parsed) \o reason_part(parsed, cut))

\* the confidence stated in a text: its first percentage pct, or else the
\* value for the words "high/medium/low confidence", or else None
stated_confidence(pct, text_lower, high, medium, low) ==
    IF ~IsNone(pct) THEN pct
    ELSE IF Contains(text_lower, <<"h", "i", "g", "h", " ", "c", "o", "n", "f", "i", "d", "e", "n", "c", "e">>) THEN Ratio(high, 10)
    ELSE IF Contains(text_lower, <<"m", "e", "d", "i", "u", "m", " ", "c", "o", "n", "f", "i", "d", "e", "n", "c", "e">>) THEN Ratio(medium, 10)
    ELSE IF Contains(text_lower, <<"l", "o", "w", " ", "c", "o", "n", "f", "i", "d", "e", "n", "c", "e">>) THEN Ratio(low, 10)
    ELSE None

\* the decision read in a free text
text_decision(text_lower) ==
    IF \/ Contains(text_lower, <<"g", "o", "o", "d">>)
       \/ Contains(text_lower, <<"a", "p", "p", "r", "o", "v", "e">>)
       \/ Contains(text_lower, <<"a", "p", "p", "r", "o", "v", "e", "d">>)
    THEN Label("good")
    ELSE IF \/ Contains(text_lower, <<"p", "o", "o", "r">>)
            \/ Contains(text_lower, <<"d", "e", "n", "y">>)
            \/ Contains(text_lower, <<"d", "e", "n", "i", "e", "d">>)
            \/ Contains(text_lower, <<"r", "e", "j", "e", "c", "t">>)
    THEN Label("poor")
    ELSE IF Contains(text_lower, <<"a", "v", "e", "r", "a", "g", "e">>) \/ Contains(text_lower, <<"m", "o", "d", "e", "r", "a", "t", "e">>)
    THEN Label("average")
    ELSE None

-----------------------------------------------------------------------------
(* analysis/robustness.py: extract_response_text, parse_credit_decision,
   analyze_robustness_results *)

\* extract_response_text on a value send_request returned. Such a value is
\* never empty, its parsed content is always a dict, and a success always
\* carries raw_response, so the branches for other shapes are not taken.
extract_response_text(r) ==
    IF IsNone(r) THEN <<>>
    ELSE IF "error_type" \in DOMAIN r THEN <<"E", "r", "r", "o", "r", ":", " ">> \o r.error
    ELSE IF HasParsed(r) THEN structured_text(r.parsed, 0)
    ELSE repr_raw(r.raw_response)

average_decision_without_score(text_lower, score) == Label("average")

\* the decision for an average class: by the score when the text holds "score:"
average_decision(text_lower, score) ==
    IF ~Contains(text_lower, <<"s", "c", "o", "r", "e", ":">>) THEN Label("average")
    ELSE IF IsNone(score) THEN None
    ELSE IF score.num >= 70 THEN Label("good")
    ELSE IF score.num < 60 THEN Label("poor")
    ELSE Label("average")

\* the decision parse_credit_decision reads in the lower-cased text
decision_of_text(text_lower) ==
    IF Contains(text_lower, <<"c", "l", "a", "s", "s", ":">>)
    THEN IF Contains(text_lower, <<"c", "l", "a", "s", "s", ":", "g", "o", "o", "d">>) \/ Contains(text_lower, <<"c", "l", "a", "s", "s", ":", "a", "p", "p", "r", "o", "v", "e", "d">>)
         THEN Label("good")
         ELSE IF \/ Contains(text_lower, <<"c", "l", "a", "s", "s", ":", "p", "o", "o", "r">>)
                 \/ Contains(text_lower, <<"c", "l", "a", "s", "s", ":", "b", "a", "d">>)
                 \/ Contains(text_lower, <<"c", "l", "a", "s", "s", ":", "d", "e", "n", "i", "e", "d">>)
         THEN Label("poor")
         ELSE IF \/ Contains(text_lower, <<"c", "l", "a", "s", "s", ":", "a", "v", "e", "r", "a", "g", "e">>)
                 \/ Contains(text_lower, <<"c", "l", "a", "s", "s", ":", "m", "o", "d", "e", "r", "a", "t", "e">>)
         THEN average_decision(text_lower, score_match(text_lower))
         ELSE None
    ELSE text_decision(text_lower)

\* the score-based proxy, used when the text states no confidence
proxy_unless_stated(stated, text_lower) ==
    IF ~IsNone(stated) THEN stated
    ELSE IF Contains(text_lower, <<"s", "c", "o", "r", "e", ":">>)
    THEN calculate_confidence_from_score(score_match(text_lower))
    ELSE None

\* the confidence parse_credit_decision reads in the text
confidence_of_text(response_text, text_lower) ==
    proxy_unless_stated(
        stated_confidence(percent_integer(response_text), text_lower, 8, 6, 4),
        text_lower)

parse_text(response_text, text_lower) ==
    [decision |-> decision_of_text(text_lower),
     confidence |-> confidence_of_text(response_text, text_lower),
     text |-> response_text]

parse_response_text(response_text) ==
    IF response_text = <<>>
    THEN [decision |-> None, confidence |-> None, text |-> <<"N", "o", " ", "r", "e", "s", "p", "o", "n", "s", "e">>]
    ELSE parse_text(response_text, Lower(response_text))

parse_credit_decision(r) == parse_response_text(extract_response_text(r))

\* text[:200] + "..." if len(text) > 200 else text
TEXT_CUT == 200
shown_text(text) == IF Len(text) > TEXT_CUT THEN SubSeq(text, 1, TEXT_CUT) \o <<".", ".", ".">> ELSE text

ConfTruthy(c) == ~IsNone(c) /\ c.num # 0

\* whether the loop skips the pair: the original call gave no baseline
skips_pair(original) ==
    IsNone(original.decision) /\ Contains(Lower(original.text), <<"e", "r", "r", "o", "r">>)

\* decisions_consistent of one pair
decisions_consistent_of(original, perturbed) ==
    \/ original.decision = perturbed.decision
    \/ IsNone(perturbed.decision) /\ Contains(Lower(perturbed.text), <<"e", "r", "r", "o", "r">>)

\* whether the pair is recorded as a failure case
is_failure_case(original, perturbed) ==
    \/ ~decisions_consistent_of(original, perturbed)
    \/ /\ ConfTruthy(original.confidence) /\ ConfTruthy(perturbed.confidence)
       /\ RatioGt(RatioAbsDiff(original.confidence, perturbed.confidence), 3, 10)

failure_case(ptype, original, perturbed) ==
    [perturbation_type |-> ptype,
     original_decision |-> original.decision,
     perturbed_decision |-> perturbed.decision,
     original_confidence |-> original.confidence,
     perturbed_confidence |-> perturbed.confidence,
     original_response |-> shown_text(original.text),
     perturbed_response |-> shown_text(perturbed.text)]

EmptyStats == [total |-> 0, consistent_decisions |-> 0, confidence_drops |-> <<>>]

RobustnessLocals ==
    [decision_consistent |-> 0,
     confidence_differences |-> <<>>,
     perturbation_stats |-> [t \in {} |-> EmptyStats],
     valid_examples |-> 0,
     failure_cases |-> <<>>]

\* perturbation_stats[ptype] after a counted pair
stats_after(old, consistent, drops) ==
    [total |-> old.total + 1,
     consistent_decisions |-> old.consistent_decisions + (IF consistent THEN 1 ELSE 0),
     confidence_drops |-> old.confidence_drops \o drops]

\* the locals after a pair that is not skipped; drops holds conf_diff when both
\* confidences are there
counted_pass(l, ptype, consistent, drops, failures) ==
    [decision_consistent |-> l.decision_consistent + (IF consistent THEN 1 ELSE 0),
     confidence_differences |-> l.confidence_differences \o drops,
     perturbation_stats |->
        [t \in DOMAIN l.perturbation_stats \cup {ptype} |->
            IF t # ptype THEN l.perturbation_stats[t]
            ELSE stats_after(IF ptype \in DOMAIN l.perturbation_stats
                             THEN l.perturbation_stats[ptype] ELSE EmptyStats,
                             consistent, drops)],
     valid_examples |-> l.valid_examples + 1,
     failure_cases |-> l.failure_cases \o failures]

\* one pass of the loop body of analyze_robustness_results
robustness_pass(l, ptype, original, perturbed) ==
    IF skips_pair(original) THEN l
    ELSE counted_pass(l, ptype,
            decisions_consistent_of(original, perturbed),
            IF ~IsNone(original.confidence) /\ ~IsNone(perturbed.confidence)
            THEN <<RatioAbsDiff(original.confidence, perturbed.confidence)>> ELSE <<>>,
            IF is_failure_case(original, perturbed)
            THEN <<failure_case(ptype, original, perturbed)>> ELSE <<>>)

RECURSIVE RatioSum(_)
RatioSum(s) == IF s = <<>> THEN Ratio(0, 1) ELSE RatioAdd(RatioSum(Tail(s)), Head(s))

\* np.mean, np.max of a non-empty list of fractions
RatioMean(s) == RatioMul(RatioSum(s), Ratio(1, Len(s)))
RatioMax(s) == s[CHOOSE i \in 1..Len(s) : \A k \in 1..Len(s) : RatioLe(s[k], s[i])]

robustness_score_equal_weights(rate, differences) ==
    RatioAdd(RatioMul(rate, Ratio(5, 10)),
             RatioMul(ClampUnit(RatioSub(Ratio(1, 1),
                                         IF differences # <<>> THEN RatioMean(differences)
                                         ELSE Ratio(1, 2))),
                      Ratio(5, 10)))

\* decision_score * 0.7 + confidence_score * 0.3, the mean difference being
\* 0.5 when no confidence was compared
robustness_score_of(rate, differences) ==
    RatioAdd(RatioMul(rate, Ratio(7, 10)),
             RatioMul(ClampUnit(RatioSub(Ratio(1, 1),
                                         IF differences # <<>> THEN RatioMean(differences)
                                         ELSE Ratio(1, 2))),
                      Ratio(3, 10)))

perturbation_analysis_of(stats) ==
    [total_examples |-> stats.total,
     consistency_rate |->
        IF stats.total > 0 THEN Reduced(Ratio(stats.consistent_decisions, stats.total))
        ELSE Ratio(0, 1),
     average_confidence_drop |->
        IF stats.confidence_drops # <<>> THEN RatioMean(stats.confidence_drops)
        ELSE Ratio(0, 1),
     max_confidence_drop |->
        IF stats.confidence_drops # <<>> THEN RatioMax(stats.confidence_drops)
        ELSE Ratio(0, 1)]

robustness_results_with(l, rate) ==
    [total_examples |-> l.valid_examples,
     decision_consistency |->
        [rate |-> rate,
         consistent_count |-> l.decision_consistent,
         inconsistent_count |-> l.valid_examples - l.decision_consistent],
     confidence_stability |->
        IF l.confidence_differences # <<>>
        THEN [mean_difference |-> RatioMean(l.confidence_differences),
              max_difference |-> RatioMax(l.confidence_differences)]
        ELSE EmptyDict,
     perturbation_analysis |->
        [t \in DOMAIN l.perturbation_stats |->
            perturbation_analysis_of(l.perturbation_stats[t])],
     robustness_score |-> robustness_score_of(rate, l.confidence_differences),
     failure_cases |-> l.failure_cases]

\* the results dict analyze_robustness_results returns (np.std is not carried)
robustness_results(l) ==
    robustness_results_with(l,
        IF l.valid_examples > 0 THEN Reduced(Ratio(l.decision_consistent, l.valid_examples))
        ELSE Ratio(0, 1))

-----------------------------------------------------------------------------
(* analysis/consistency.py: normalize_response_text,
   extract_decision_and_confidence, analyze_consistency_results *)

\* where the word that starts at position i of t ends
word_end(t, i) ==
    FirstOf({j \in i..Len(t) : j = Len(t) \/ t[j + 1] = " "})

\* set(t.split()): the words of t (texts hold no whitespace but spaces)
words_of(t) ==
    {SubSeq(t, i, word_end(t, i)) :
        i \in {k \in 1..Len(t) : t[k] # " " /\ (k = 1 \/ t[k - 1] = " ")}}

\* whether ' '.join(t.split()) keeps the character at position i: a space
\* stays when it follows a word and another word comes after it
kept_in_join(t, i) ==
    \/ t[i] # " "
    \/ /\ i > 1 /\ t[i - 1] # " "
       /\ \E j \in (i + 1)..Len(t) : t[j] # " "

\* ' '.join(t.split()) of the positions lo..hi of t
RECURSIVE join_split(_, _, _)
join_split(t, lo, hi) ==
    IF lo > hi THEN <<>>
    ELSE IF lo = hi THEN (IF kept_in_join(t, lo) THEN <<t[lo]>> ELSE <<>>)
    ELSE join_split(t, lo, (lo + hi) \div 2) \o join_split(t, ((lo + hi) \div 2) + 1, hi)

EXPLANATION_CUT == 100

\* response_text.lower().strip(), then ' '.join(normalized.split())
normalized_text(text_lower) == join_split(text_lower, 1, Len(text_lower))

normalize_response_text(r) ==
    normalized_text(Lower(IF HasParsed(r) THEN structured_text(r.parsed, EXPLANATION_CUT)
                          ELSE IF "raw_response" \in DOMAIN r THEN repr_raw(r.raw_response)
                          ELSE repr_failure(r)))

\* parsed.get(key, "").lower(): AttributeError when the value is there and is
\* not a string
lower_raises(parsed, key) == key \in DOMAIN parsed /\ ~IsStr(parsed[key])
lower_of_field(parsed, key) ==
    IF key \notin DOMAIN parsed THEN <<>> ELSE Lower(parsed[key].str)

structured_decision(classification, credit_score) ==
    IF classification \in {<<"g", "o", "o", "d">>, <<"a", "p", "p", "r", "o", "v", "e", "d">>, <<"a", "p", "p", "r", "o", "v", "e">>} THEN Label("good")
    ELSE IF classification \in {<<"p", "o", "o", "r">>, <<"b", "a", "d">>, <<"d", "e", "n", "i", "e", "d">>, <<"d", "e", "n", "y">>, <<"r", "e", "j", "e", "c", "t">>}
    THEN Label("poor")
    ELSE IF classification \in {<<"a", "v", "e", "r", "a", "g", "e">>, <<"m", "o", "d", "e", "r", "a", "t", "e">>}
    THEN IF ~IsNone(credit_score)
         THEN IF credit_score.num >= 70 THEN Label("good")
              ELSE IF credit_score.num < 60 THEN Label("poor")
              ELSE Label("average")
         ELSE Label("average")
    ELSE None

\* the confidence stated in the explanation, or else the score-based proxy
confidence_or_proxy(explicit, credit_score) ==
    IF IsNone(explicit) /\ ~IsNone(credit_score)
    THEN calculate_confidence_from_score(credit_score)
    ELSE explicit

structured_confidence(explanation, credit_score) ==
    confidence_or_proxy(
        IF explanation = <<>> THEN None
        ELSE stated_confidence(percent_decimal(explanation), explanation, 9, 7, 5),
        credit_score)

\* the text-based fallback of extract_decision_and_confidence
text_decision_and_confidence(response_text, text_lower) ==
    [decision |-> text_decision(text_lower),
     confidence |-> stated_confidence(percent_decimal(response_text), text_lower, 8, 6, 4)]

fallback_decision_and_confidence(response_text) ==
    text_decision_and_confidence(response_text, Lower(response_text))

\* extract_decision_and_confidence on a value send_request returned: the pair
\* it returns, or Raised(exc) when an exception escapes it
extract_decision_and_confidence(r) ==
    IF IsNone(r) THEN [decision |-> None, confidence |-> None]
    ELSE IF HasParsed(r)
    THEN IF \/ lower_raises(r.parsed, "classification")
            \/ lower_raises(r.parsed, "explanation")
         THEN Raised("AttributeError")
         ELSE [decision |->
                  structured_decision(lower_of_field(r.parsed, "classification"),
                                      Get(r.parsed, "credit_score")),
               confidence |->
                  structured_confidence(lower_of_field(r.parsed, "explanation"),
                                        Get(r.parsed, "credit_score"))]
    ELSE IF "raw_response" \in DOMAIN r
    THEN fallback_decision_and_confidence(repr_raw(r.raw_response))
    ELSE fallback_decision_and_confidence(repr_failure(r))

SeqToSet(s) == {s[i] : i \in 1..Len(s)}

\* len(words1 & words2) / len(words1 | words2), 1.0 when both are empty
jaccard(words1, words2) ==
    IF words1 \cup words2 # {}
    THEN Reduced(Ratio(Cardinality(words1 \cap words2), Cardinality(words1 \cup words2)))
    ELSE Ratio(1, 1)
similarity(text1, text2) == jaccard(words_of(text1), words_of(text2))

\* the similarities of the pairs i < j, in the order of the two nested loops
RECURSIVE text_similarities_from(_, _, _)
text_similarities_from(texts, i, j) ==
    IF i >= Len(texts) THEN <<>>
    ELSE IF j > Len(texts) THEN text_similarities_from(texts, i + 1, i + 2)
    ELSE <<similarity(texts[i], texts[j])>> \o text_similarities_from(texts, i, j + 1)

RatioMin(s) == s[CHOOSE i \in 1..Len(s) : \A k \in 1..Len(s) : RatioLe(s[i], s[k])]

ConsistencyLocals ==
    [total_responses |-> 0,
     perfect_consistent_count |-> 0,
     decision_consistent_count |-> 0,
     confidence_consistent_count |-> 0,
     all_text_similarities |-> <<>>,
     consistency_by_input |-> <<>>,
     inconsistent_cases |-> <<>>]

\* [normalize_response_text(r["response"]) for r in responses], first n
RECURSIVE response_texts_of(_, _)
response_texts_of(responses, n) ==
    IF n = 0 THEN <<>>
    ELSE Append(response_texts_of(responses, n - 1),
                normalize_response_text(responses[n].response))

\* what extract_decision_and_confidence gives for the first n responses
RECURSIVE extracted_of(_, _)
extracted_of(responses, n) ==
    IF n = 0 THEN <<>>
    ELSE Append(extracted_of(responses, n - 1),
                extract_decision_and_confidence(responses[n].response))

RECURSIVE decisions_of(_)
decisions_of(extracted) ==
    IF extracted = <<>> THEN <<>>
    ELSE <<Head(extracted).decision>> \o decisions_of(Tail(extracted))

RECURSIVE confidences_of(_)
confidences_of(extracted) ==
    IF extracted = <<>> THEN <<>>
    ELSE <<Head(extracted).confidence>> \o confidences_of(Tail(extracted))

\* [c for c in confidences if c is not None]
RECURSIVE confidence_values_of(_)
confidence_values_of(confidences) ==
    IF confidences = <<>> THEN <<>>
    ELSE (IF IsNone(Head(confidences)) THEN <<>> ELSE <<Head(confidences)>>)
         \o confidence_values_of(Tail(confidences))

\* max(values) - min(values) <= 0.05, False without values
confidence_consistent_of(confidence_values) ==
    /\ confidence_values # <<>>
    /\ ~RatioGt(RatioSub(RatioMax(confidence_values), RatioMin(confidence_values)), 5, 100)

avg_text_similarity_of(text_similarities) ==
    IF text_similarities # <<>> THEN RatioMean(text_similarities) ELSE Ratio(1, 1)

\* input_analysis of one input record
input_analysis_counting_null_labels(input_hash, response_texts, decisions, confidences, text_similarities) ==
    [input_hash |-> input_hash,
     num_responses |-> Len(response_texts),
     perfect_consistent |-> Cardinality(SeqToSet(response_texts)) = 1,
     decision_consistent |-> Cardinality(SeqToSet(decisions)) <= 1,
     confidence_consistent |-> confidence_consistent_of(confidence_values_of(confidences)),
     avg_text_similarity |-> avg_text_similarity_of(text_similarities),
     unique_responses |-> Cardinality(SeqToSet(response_texts)),
     decisions |-> decisions,
     confidences |-> confidences,
     response_texts |-> SubSeq(response_texts, 1, Min(3, Len(response_texts)))]

\* input_analysis: perfect_consistent is len(set(normalized_responses)) == 1,
\* decision_consistent is len(set(filter(None, decisions))) <= 1
input_analysis(input_hash, response_texts, decisions, confidences, text_similarities) ==
    [input_hash |-> input_hash,
     num_responses |-> Len(response_texts),
     perfect_consistent |-> Cardinality(SeqToSet(response_texts)) = 1,
     decision_consistent |-> Cardinality(SeqToSet(decisions) \ {None}) <= 1,
     confidence_consistent |-> confidence_consistent_of(confidence_values_of(confidences)),
     avg_text_similarity |-> avg_text_similarity_of(text_similarities),
     unique_responses |-> Cardinality(SeqToSet(response_texts)),
     decisions |-> decisions,
     confidences |-> confidences,
     response_texts |-> SubSeq(response_texts, 1, Min(3, Len(response_texts)))]

issues_of(analysed, has_confidence) ==
    (IF ~analysed.decision_consistent THEN <<"decision_inconsistency">> ELSE <<>>)
    \o (IF ~analysed.confidence_consistent /\ has_confidence
        THEN <<"confidence_inconsistency">> ELSE <<>>)
    \o (IF ~RatioLe(Ratio(8, 10), analysed.avg_text_similarity)
        THEN <<"text_dissimilarity">> ELSE <<>>)

\* the locals after the pass over an input record, given its input_analysis
locals_after(l, input_record, response_texts, analysed, text_similarities) ==
    [total_responses |-> l.total_responses + Len(input_record.responses),
     perfect_consistent_count |->
        l.perfect_consistent_count + (IF analysed.perfect_consistent THEN 1 ELSE 0),
     decision_consistent_count |->
        l.decision_consistent_count + (IF analysed.decision_consistent THEN 1 ELSE 0),
     confidence_consistent_count |->
        l.confidence_consistent_count + (IF analysed.confidence_consistent THEN 1 ELSE 0),
     all_text_similarities |-> l.all_text_similarities \o text_similarities,
     consistency_by_input |-> Append(l.consistency_by_input, analysed),
     inconsistent_cases |->
        IF ~analysed.perfect_consistent
        THEN Append(l.inconsistent_cases,
                    [input_hash |-> input_record.input_hash,
                     input_data |-> input_record.input_data,
                     responses |-> response_texts,
                     decisions |-> analysed.decisions,
                     confidences |-> analysed.confidences,
                     issues |-> issues_of(analysed,
                                   confidence_values_of(analysed.confidences) # <<>>)])
        ELSE l.inconsistent_cases]

pass_with_similarities(l, input_record, response_texts, extracted, text_similarities) ==
    locals_after(l, input_record, response_texts,
                 input_analysis(input_record.input_hash, response_texts,
                                decisions_of(extracted), confidences_of(extracted),
                                text_similarities),
                 text_similarities)

\* the pass once the texts are normalised and the decisions extracted: the
\* first exception of an extraction escapes
pass_extracted(l, input_record, response_texts, extracted) ==
    IF \E i \in 1..Len(extracted) : IsRaised(extracted[i])
    THEN extracted[FirstOf({i \in 1..Len(extracted) : IsRaised(extracted[i])})]
    ELSE pass_with_similarities(l, input_record, response_texts, extracted,
                                text_similarities_from(response_texts, 1, 2))

\* one pass of the loop body of analyze_consistency_results over an input
\* record: the locals after it, or Raised(exc) when an exception escapes
consistency_pass(l, input_record) ==
    IF Len(input_record.responses) < 2
    THEN [l EXCEPT !.total_responses = @ + Len(input_record.responses)]
    ELSE pass_extracted(l, input_record,
                        response_texts_of(input_record.responses, Len(input_record.responses)),
                        extracted_of(input_record.responses, Len(input_record.responses)))

consistency_rate_zero_without_inputs(count, total_inputs) ==
    IF total_inputs > 0 THEN Reduced(Ratio(count, total_inputs)) ELSE Ratio(0, 1)

\* count / total_inputs, and 1.0 without inputs
consistency_rate(count, total_inputs) ==
    IF total_inputs > 0 THEN Reduced(Ratio(count, total_inputs)) ELSE Ratio(1, 1)

\* decision * 0.5 + confidence * 0.3 + average text similarity * 0.2, and 1.0
\* without inputs
overall_consistency_score_of(decision, confidence, similarities, total_inputs) ==
    IF total_inputs = 0 THEN Ratio(1, 1)
    ELSE RatioAdd(RatioAdd(RatioMul(decision, Ratio(5, 10)), RatioMul(confidence, Ratio(3, 10))),
                  RatioMul(avg_text_similarity_of(similarities), Ratio(2, 10)))

consistency_results_with(l, total_inputs, perfect, decision, confidence) ==
    [total_inputs |-> total_inputs,
     total_responses |-> l.total_responses,
     perfect_consistency |-> perfect,
     decision_consistency |-> decision,
     confidence_consistency |-> confidence,
     text_similarity_scores |-> l.all_text_similarities,
     consistency_by_input |-> l.consistency_by_input,
     inconsistent_cases |-> l.inconsistent_cases,
     overall_consistency_score |->
        overall_consistency_score_of(decision, confidence, l.all_text_similarities,
                                     total_inputs),
     statistics |->
        [mean_text_similarity |-> avg_text_similarity_of(l.all_text_similarities),
         min_text_similarity |->
            IF l.all_text_similarities # <<>> THEN RatioMin(l.all_text_similarities)
            ELSE Ratio(1, 1),
         max_text_similarity |->
            IF l.all_text_similarities # <<>> THEN RatioMax(l.all_text_similarities)
            ELSE Ratio(1, 1),
         perfect_consistency_rate |-> perfect,
         decision_consistency_rate |-> decision,
         confidence_consistency_rate |-> confidence]]

\* the results dict analyze_consistency_results returns for total_inputs
\* records (np.std is not carried)
consistency_results(l, total_inputs) ==
    consistency_results_with(l, total_inputs,
        consistency_rate(l.perfect_consistent_count, total_inputs),
        consistency_rate(l.decision_consistent_count, total_inputs),
        consistency_rate(l.confidence_consistent_count, total_inputs))

-----------------------------------------------------------------------------
(* analyze_robustness_results and analyze_consistency_results over stored
   responses *)

\* Bounds on the pairs one robustness analysis reads and on the input records
\* one consistency analysis reads.
MaxPairs == 2
MaxInputs == 1

\* The gateway exchanges behind the stored responses: a scored answer, an
\* answer whose explanation quotes a percentage above 100, an answer with null
\* score and classification, an answer without score or classification, a
\* refused connection, a read timeout, and the first answer with another score.
AnalysisOutcomes ==
    <<[step |-> "json", status_code |-> 200,
       data |-> NewFormat(Num(80), Str(T_Good), Str(<<"s", "t", "a", "b", "l", "e", " ", "i", "n", "c", "o", "m", "e">>))],
      [step |-> "json", status_code |-> 200,
       data |-> NewFormat(Num(65), Str(T_Average), Str(<<"d", "e", "b", "t", " ", "i", "s", " ", "1", "5", "0", "%", " ", "o", "f", " ", "i", "n", "c", "o", "m", "e">>))],
      [step |-> "json", status_code |-> 200, data |-> NewFormat(None, None, None)],
      [step |-> "json", status_code |-> 200,
       data |-> [json |-> "dict", fields |-> [detail |-> Str(<<"b", "u", "s", "y">>)]]],
      [step |-> "post_raises", exc |-> "ConnectionError",
       detail |-> <<"F", "a", "i", "l", "e", "d", " ", "t", "o", " ", "e", "s", "t", "a", "b", "l", "i", "s", "h", " ", "a", " ", "n", "e", "w", " ", "c", "o", "n", "n", "e", "c", "t", "i", "o", "n", ":", " ", "[", "E", "r", "r", "n", "o", " ", "1", "3", "]", " ", "P", "e", "r", "m", "i", "s", "s", "i", "o", "n", " ", "d", "e", "n", "i", "e", "d">>],
      [step |-> "post_raises", exc |-> "ReadTimeout", detail |-> <<"R", "e", "a", "d", " ", "t", "i", "m", "e", "d", " ", "o", "u", "t">>],
      [step |-> "json", status_code |-> 200,
       data |-> NewFormat(Num(72), Str(T_Good), Str(<<"s", "t", "a", "b", "l", "e", " ", "i", "n", "c", "o", "m", "e">>))]>>

\* what send_request returned for the profile and the exchange
StoredResponse(row, n) == send_request_result(row, AnalysisOutcomes[n])

RobustnessChoices == 1..6

\* The repeats of one input: any mix of the five answers, or the connection
\* refused at every repeat.
AnsweredChoices == {1, 2, 3, 4, 7}
ConsistencyChoices ==
    [1..NumRepeats -> AnsweredChoices] \cup {[i \in 1..NumRepeats |-> 5]}

AnalysisInit ==
    /\ analysis \in {"robustness", "consistency"}
    /\ analysis_pc = "loop"
    /\ examined = 0
    /\ item = None
    /\ locals = IF analysis = "robustness" THEN RobustnessLocals ELSE ConsistencyLocals
    /\ returned = None
    /\ ParkedButAnalysis

\* the pass over a pair, given what parse_credit_decision read in its responses
PairParsed(ptype, original_response, perturbed_response, original, perturbed) ==
    /\ item' = [perturbation_type |-> ptype,
                responses |-> <<original_response, perturbed_response>>,
                parsed |-> <<original, perturbed>>]
    /\ locals' = robustness_pass(locals, ptype, original, perturbed)

PairRead(ptype, original_response, perturbed_response) ==
    PairParsed(ptype, original_response, perturbed_response,
               parse_credit_decision(original_response),
               parse_credit_decision(perturbed_response))

\* analyze_robustness_results: one pass of its loop, over the next record of
\* robustness.jsonl
AnalyzePair(n_original, n_perturbed) ==
    /\ analysis = "robustness" /\ analysis_pc = "loop" /\ examined < MaxPairs
    /\ PairRead(adversarial_example(examined + 1).perturbation_type,
                StoredResponse(adversarial_example(examined + 1).original_data, n_original),
                StoredResponse(adversarial_example(examined + 1).perturbed_data, n_perturbed))
    /\ examined' = examined + 1
    /\ UNCHANGED <<analysis, analysis_pc, returned, notAnalysisVars>>

\* analyze_robustness_results: the metrics after the last record
RobustnessReturn ==
    /\ analysis = "robustness" /\ analysis_pc = "loop"
    /\ returned' = robustness_results(locals)
    /\ analysis_pc' = "done"
    /\ UNCHANGED <<analysis, examined, item, locals, notAnalysisVars>>

\* the record of consistency.jsonl for an input and the exchanges of its repeats
stored_input_record(input_data, sample_index, choice) ==
    consistency_record(input_data, sample_index,
        [i \in 1..NumRepeats |->
            [input_hash |-> hash_input_data(input_data),
             input_data |-> input_data,
             repeat_number |-> i,
             response |-> StoredResponse(input_data, choice[i]),
             call_order |-> sample_index * NumRepeats + i]])

Last(s) == s[Len(s)]

\* the pass over an input record, given the locals after it (or the exception)
InputRecordPassed(input_record, after) ==
    /\ item' = [input_hash |-> input_record.input_hash,
                responses |-> [i \in 1..NumRepeats |-> input_record.responses[i].response],
                parsed |-> IF IsRaised(after) THEN <<>>
                           ELSE [i \in 1..NumRepeats |->
                                    [decision |-> Last(after.consistency_by_input).decisions[i],
                                     confidence |->
                                        Last(after.consistency_by_input).confidences[i]]]]
    /\ IF IsRaised(after)
       THEN /\ analysis_pc' = "raised"
            /\ returned' = after
            /\ UNCHANGED locals
       ELSE /\ locals' = after
            /\ UNCHANGED <<analysis_pc, returned>>

InputRecordRead(input_record) ==
    InputRecordPassed(input_record, consistency_pass(locals, input_record))

\* analyze_consistency_results: one pass of its loop, over the next record of
\* consistency.jsonl; an exception of the pass escapes the function
AnalyzeInputRecord(choice) ==
    /\ analysis = "consistency" /\ analysis_pc = "loop" /\ examined < MaxInputs
    /\ InputRecordRead(stored_input_record(SampleRow(examined + 1), examined, choice))
    /\ examined' = examined + 1
    /\ UNCHANGED <<analysis, notAnalysisVars>>

\* analyze_consistency_results: the metrics after the last record
ConsistencyReturn ==
    /\ analysis = "consistency" /\ analysis_pc = "loop"
    /\ returned' = consistency_results(locals, examined)
    /\ analysis_pc' = "done"
    /\ UNCHANGED <<analysis, examined, item, locals, notAnalysisVars>>

AnalysisNext ==
    \/ \E n_original \in RobustnessChoices, n_perturbed \in RobustnessChoices :
          AnalyzePair(n_original, n_perturbed)
    \/ RobustnessReturn
    \/ \E choice \in ConsistencyChoices : AnalyzeInputRecord(choice)
    \/ ConsistencyReturn

SpecAnalysis == AnalysisInit /\ [][AnalysisNext]_vars

\* a successful result whose parsed credit_score and classification are both
\* missing or null
NoUsableDecision(r) ==
    /\ "error_type" \notin DOMAIN r
    /\ IsNone(Get(r.parsed, "credit_score"))
    /\ IsNone(Get(r.parsed, "classification"))

IsFailure(r) == "error_type" \in DOMAIN r

\* C2: the confidence parse_credit_decision and extract_decision_and_confidence
\* return for a stored response is null or lies in [0,1], an explicit
\* percentage in the text included.
C2_ConfidenceInUnitInterval ==
    (analysis # "idle" /\ item # None) =>
        \A i \in 1..Len(item.parsed) :
            \/ IsNone(item.parsed[i].confidence)
            \/ RatioInUnit(item.parsed[i].confidence)

\* C6: a successful result with neither score nor classification gets no
\* decision and raises nothing: the analysis that read it has not stopped on
\* an exception.
C6_NoUsableDecisionIsNotFatal ==
    (analysis # "idle" /\ item # None) =>
        \A i \in 1..Len(item.responses) :
            NoUsableDecision(item.responses[i]) =>
                /\ analysis_pc # "raised"
                /\ IsNone(item.parsed[i].decision)

\* C7: a pass of analyze_robustness_results over a pair whose original call
\* gave a decision and whose perturbed call failed at the gateway counts the
\* pair as robust: decision_consistent and the family's consistent_decisions
\* go up by one and no failure case is added.
C7_PerturbedFailureIsRobust ==
    [][ (/\ analysis = "robustness"
         /\ examined' = examined + 1
         /\ ~IsFailure(item'.responses[1])
         /\ ~IsNone(item'.parsed[1].decision)
         /\ IsFailure(item'.responses[2]))
        => /\ locals'.decision_consistent = locals.decision_consistent + 1
           /\ locals'.perturbation_stats[item'.perturbation_type].consistent_decisions
                 = (IF item'.perturbation_type \in DOMAIN locals.perturbation_stats
                    THEN locals.perturbation_stats[item'.perturbation_type].consistent_decisions
                    ELSE 0) + 1
           /\ locals'.failure_cases = locals.failure_cases ]_vars

\* C12: analyze_consistency_results on an empty input list returns
\* overall_consistency_score 1.0 with perfect_consistency, decision_consistency
\* and confidence_consistency 1.0, total_inputs 0 and total_responses 0, and
\* no exception.
C12_EmptyInputIsPerfect ==
    (analysis = "consistency" /\ analysis_pc = "done" /\ examined = 0) =>
        /\ ~IsRaised(returned)
        /\ RatioEq(returned.overall_consistency_score, Ratio(1, 1))
        /\ RatioEq(returned.perfect_consistency, Ratio(1, 1))
        /\ RatioEq(returned.decision_consistency, Ratio(1, 1))
        /\ RatioEq(returned.confidence_consistency, Ratio(1, 1))
        /\ returned.total_inputs = 0
        /\ returned.total_responses = 0

\* analyze_consistency_results has returned for an empty list.
C12_Witness ==
    /\ analysis = "consistency" /\ analysis_pc = "done" /\ examined = 0
    /\ returned # None /\ returned.consistency_by_input = <<>>

\* C13: for an input with at least two responses, perfect_consistent is true
\* exactly when all normalized response texts are identical, and
\* decision_consistent exactly when all non-null decision labels are
\* identical; responses that share a label and differ in their text are
\* decision-consistent and not perfectly consistent.
C13_PerfectAndDecisionConsistency ==
    (analysis = "consistency" /\ item # None /\ analysis_pc # "raised") =>
        LET a == Last(locals.consistency_by_input) IN
        /\ a.num_responses >= 2
        /\ a.perfect_consistent <=>
              \A i, j \in 1..Len(a.response_texts) : a.response_texts[i] = a.response_texts[j]
        /\ a.decision_consistent <=>
              \A i, j \in 1..Len(a.decisions) :
                 (~IsNone(a.decisions[i]) /\ ~IsNone(a.decisions[j]))
                    => a.decisions[i] = a.decisions[j]
        /\ ( /\ \A i \in 1..Len(a.decisions) : a.decisions[i] = Label("good")
             /\ \E i, j \in 1..Len(a.response_texts) :
                   a.response_texts[i] # a.response_texts[j] )
              => (a.decision_consistent /\ ~a.perfect_consistent)

\* An input whose answers are all "Good", some with score 80 and some with
\* score 72, has been analysed.
C13_Witness ==
    /\ analysis = "consistency" /\ item # None /\ analysis_pc # "raised"
    /\ \A i \in 1..Len(item.parsed) : item.parsed[i].decision = Label("good")
    /\ \E i, j \in 1..Len(item.responses) :
          /\ item.responses[i].parsed.credit_score = Num(80)
          /\ item.responses[j].parsed.credit_score = Num(72)
    /\ Last(locals.consistency_by_input).decision_consistent
    /\ ~Last(locals.consistency_by_input).perfect_consistent

\* 0.7 * rate + 0.3 * clamp(1 - delta, 0, 1)
weighted_robustness(rate, delta) ==
    RatioAdd(RatioMul(Ratio(7, 10), rate),
             RatioMul(Ratio(3, 10), ClampUnit(RatioSub(Ratio(1, 1), delta))))

\* decision_consistent / valid_examples of the pairs read, 0 without a pair
consistent_rate_read ==
    IF locals.valid_examples > 0
    THEN Ratio(locals.decision_consistent, locals.valid_examples) ELSE Ratio(0, 1)

\* C18 as stated: for every list of pairs the robustness score is
\* 0.7 * decision_consistency_rate + 0.3 * clamp(1 - mean_confidence_delta, 0, 1),
\* mean_confidence_delta being the mean absolute confidence difference over
\* the pairs with both confidences present, and the score lies in [0,1].
C18_ScoreFromMeanDelta ==
    (analysis = "robustness" /\ analysis_pc = "done") =>
        /\ locals.confidence_differences # <<>>
        /\ RatioEq(returned.robustness_score,
                   weighted_robustness(consistent_rate_read,
                                       RatioMean(locals.confidence_differences)))
        /\ RatioInUnit(returned.robustness_score)

\* C18 as amended: the score is 0.7 * decision_consistency_rate +
\* 0.3 * clamp(1 - mean_confidence_delta, 0, 1), where mean_confidence_delta
\* is the mean absolute confidence difference over the pairs with both
\* confidences present and 0.5 when there is no such pair; it lies in [0,1].
C18_ScoreWithDefaultDelta ==
    (analysis = "robustness" /\ analysis_pc = "done") =>
        /\ RatioEq(returned.decision_consistency.rate, consistent_rate_read)
        /\ locals.confidence_differences # <<>> =>
              /\ RatioEq(returned.confidence_stability.mean_difference,
                         RatioMean(locals.confidence_differences))
              /\ RatioEq(returned.robustness_score,
                         weighted_robustness(consistent_rate_read,
                                             RatioMean(locals.confidence_differences)))
        /\ locals.confidence_differences = <<>> =>
              /\ "mean_difference" \notin DOMAIN returned.confidence_stability
              /\ RatioEq(returned.robustness_score,
                         weighted_robustness(consistent_rate_read, Ratio(1, 2)))
        /\ RatioInUnit(returned.robustness_score)

\* The analysis has returned for pairs none of which had both confidences,
\* with every pair consistent: the score is 0.7 + 0.3 * 0.5.
C18_Witness ==
    /\ analysis = "robustness" /\ analysis_pc = "done"
    /\ locals.valid_examples > 0
    /\ locals.decision_consistent = locals.valid_examples
    /\ locals.confidence_differences = <<>>
    /\ RatioEq(returned.robustness_score, Ratio(85, 100))

-----------------------------------------------------------------------------
(* analysis/bias_fairness.py: demographic_parity, and the disparate impact *)
(* ratio run_bias_analysis takes of its groups                             *)

\* Bound on the number of entries of the responses file.
MaxEntries == 2

\* The profiles of the entries: the protected attribute is a value or null.
ParityRows ==
    { [name |-> Str(<<"A", "n", "n">>), gender |-> Str(<<"f", "e", "m", "a", "l", "e">>)],
      [name |-> Str(<<"B", "o", "b">>), gender |-> Str(<<"m", "a", "l", "e">>)],
      [name |-> Str(<<"C", "y">>), gender |-> None] }

\* The oracle answers of the entries.
ParityOutcomes ==
    { [step |-> "json", status_code |-> 200, data |-> NewFormat(Num(80), Str(T_Good), None)],
      [step |-> "json", status_code |-> 200, data |-> NewFormat(Num(65), Str(T_Average), None)],
      [step |-> "json", status_code |-> 200, data |-> NewFormat(Num(75), None, None)],
      [step |-> "json", status_code |-> 200, data |-> NewFormat(Str(<<"h", "i", "g", "h">>), Str(<<>>), None)],
      [step |-> "json", status_code |-> 200, data |-> NewFormat(None, None, None)],
      [step |-> "post_raises", exc |-> "ReadTimeout", detail |-> <<"R", "e", "a", "d", " ", "t", "i", "m", "e", "d", " ", "o", "u", "t">>] }

\* The entries collect_responses writes, {"input": ..., "output": ...}, and an
\* entry that carries an "error" key of its own.
ParityEntries ==
    { [input |-> row, output |-> send_request_result(row, o)] :
        row \in ParityRows, o \in ParityOutcomes }
    \cup { [input |-> row, error |-> Str(<<"f", "a", "i", "l", "e", "d">>)] : row \in ParityRows }

\* float(credit_score): the number, or ValueError for a text that is no number
float_of(v) ==
    IF IsNum(v) THEN v
    ELSE IF IsStr(v) /\ Len(v.str) > 0 /\ \A i \in 1..Len(v.str) : IsDigit(v.str[i])
         THEN Num(TextToNat(v.str))
    ELSE Raised("ValueError")

\* has_error or "output" not in entry
entry_has_error(entry) ==
    \/ "error" \in DOMAIN entry \/ "error_type" \in DOMAIN entry
    \/ "output" \notin DOMAIN entry

\* group is None or (classification is None and credit_score is None)
entry_unusable(group, classification, credit_score) ==
    IsNone(group) \/ (IsNone(classification) /\ IsNone(credit_score))

\* groups[group] of a group first met
new_group ==
    [total |-> 0, positive |-> 0, scores |-> <<>>,
     classifications |-> [Poor |-> 0, Average |-> 0, Good |-> 0], errors |-> 0]

\* "Good", "Average", "Poor" as a key of classifications, or "" for any other text
classification_key(classification) ==
    IF ~IsStr(classification) THEN ""
    ELSE IF classification.str = T_Good THEN "Good"
    ELSE IF classification.str = T_Average THEN "Average"
    ELSE IF classification.str = T_Poor THEN "Poor"
    ELSE ""

\* is_positive: the classification equals positive_class ("Good"), or without
\* a classification the score is at least 70
is_positive(classification, credit_score) ==
    IF Truthy(classification) THEN classification = Str(T_Good)
    ELSE IF ~IsNone(credit_score)
         THEN IsNum(float_of(credit_score)) /\ float_of(credit_score).num >= 70
    ELSE FALSE

\* the float() calls of one entry that raise ValueError
float_errors(classification, credit_score) ==
    IF IsNone(credit_score) \/ IsNum(float_of(credit_score)) THEN 0
    ELSE IF Truthy(classification) THEN 1 ELSE 2

group_not_totalled(stats, classification, credit_score) ==
    [stats EXCEPT
        !.positive = IF is_positive(classification, credit_score) THEN @ + 1 ELSE @]

\* the statistics of a group after one usable entry of the group
group_counted(stats, classification, credit_score) ==
    [stats EXCEPT
        !.total = @ + 1,
        !.scores = IF ~IsNone(credit_score) /\ IsNum(float_of(credit_score))
                   THEN Append(@, float_of(credit_score).num) ELSE @,
        !.classifications =
            IF classification_key(classification) = "" THEN @
            ELSE [@ EXCEPT ![classification_key(classification)] = @ + 1],
        !.errors = @ + float_errors(classification, credit_score),
        !.positive = IF is_positive(classification, credit_score) THEN @ + 1 ELSE @]

\* groups after the loop body has run on one usable entry
groups_counting(g, group, classification, credit_score) ==
    [k \in DOMAIN g \cup {group} |->
        IF k = group
        THEN group_counted(IF group \in DOMAIN g THEN g[group] ELSE new_group,
                           classification, credit_score)
        ELSE g[k]]

ParityInit ==
    /\ dp_entries \in UNION { [1..n -> ParityEntries] : n \in 0..MaxEntries }
    /\ dp_pc = "loop"
    /\ dp_idx = 0
    /\ dp_errors = 0
    /\ groups = EmptyDict
    /\ di_ratio = None
    /\ ParkedButParity

\* one pass of "for entry in responses"
ParityEntryRead(entry, parsed_output) ==
    IF entry_has_error(entry)
       \/ entry_unusable(Get(entry.input, "gender"), Get(parsed_output, "classification"),
                         Get(parsed_output, "credit_score"))
    THEN /\ dp_errors' = dp_errors + 1
         /\ UNCHANGED groups
    ELSE /\ groups' = groups_counting(groups, Get(entry.input, "gender"),
                                      Get(parsed_output, "classification"),
                                      Get(parsed_output, "credit_score"))
         /\ UNCHANGED dp_errors

DemographicParityEntry ==
    /\ dp_pc = "loop"
    /\ dp_idx < Len(dp_entries)
    /\ ParityEntryRead(dp_entries[dp_idx + 1],
                       IF "output" \in DOMAIN dp_entries[dp_idx + 1]
                       THEN parsed_of(dp_entries[dp_idx + 1].output) ELSE EmptyDict)
    /\ dp_idx' = dp_idx + 1
    /\ UNCHANGED <<dp_entries, dp_pc, di_ratio, notParityVars>>

\* "return groups", after the statistics of every group are logged
DemographicParityReturn ==
    /\ dp_pc = "loop"
    /\ dp_idx = Len(dp_entries)
    /\ dp_pc' = "grouped"
    /\ UNCHANGED <<dp_entries, dp_idx, dp_errors, diVars, notParityVars>>

\* di_ratio = disparate_impact_ratio(dp_groups)
ParityDisparateImpact ==
    /\ dp_pc = "grouped"
    /\ DisparateImpactRatio

ParityNext ==
    \/ DemographicParityEntry
    \/ DemographicParityReturn
    \/ ParityDisparateImpact

SpecParity == ParityInit /\ [][ParityNext]_vars

\* the rate demographic_parity logs for a group
group_rate(stats) ==
    IF stats.total > 0 THEN Ratio(stats.positive, stats.total) ELSE Ratio(0, 1)

\* C11: every group built by demographic_parity has 0 <= positive <= total, so
\* its positive-outcome rate lies in [0,1], and the disparate impact ratio of
\* the groups lies in [0,1].
C11_RatesInUnitInterval ==
    dp_pc # "idle" =>
        /\ \A k \in DOMAIN groups :
              /\ 0 <= groups[k].positive /\ groups[k].positive <= groups[k].total
              /\ RatioInUnit(group_rate(groups[k]))
        /\ di_ratio # None => RatioInUnit(di_ratio)

\* Two groups have been built, one with every entry positive and one with
\* none, and the disparate impact ratio of the groups has been taken.
C11_Witness ==
    /\ dp_pc = "grouped" /\ di_ratio # None
    /\ \E k \in DOMAIN groups : groups[k].positive = groups[k].total /\ groups[k].total > 0
    /\ \E k \in DOMAIN groups : groups[k].positive = 0 /\ groups[k].total > 0

-----------------------------------------------------------------------------
(* The order of independent records: demographic_parity,                    *)
(* analyze_robustness_results and analyze_consistency_results on a list and *)
(* on a permutation of it. The counts are integers; the means and the       *)
(* scores are Python floats, sums and products rounded to nearest, ties to  *)
(* even. The model keeps the rounding with a shorter significand.           *)

\* Bound on the length of the lists.
MaxListed == 3

\* Bits of the significand of a float in the model (Python: 53).
SignificandBits == 6

RECURSIVE Pow2(_)
Pow2(n) == IF n = 0 THEN 1 ELSE 2 * Pow2(n - 1)

\* n/d scaled by a power of two into [2^(p-1), 2^p), with the exponent
RECURSIVE float_scaled(_, _, _)
float_scaled(n, d, e) ==
    IF n >= Pow2(SignificandBits) * d THEN float_scaled(n, 2 * d, e + 1)
    ELSE IF n < Pow2(SignificandBits - 1) * d THEN float_scaled(2 * n, d, e - 1)
    ELSE [n |-> n, d |-> d, e |-> e]

\* the integer nearest to n/d, a tie going to the even one
nearest_even(n, d) ==
    IF 2 * (n % d) > d THEN (n \div d) + 1
    ELSE IF 2 * (n % d) < d THEN n \div d
    ELSE IF (n \div d) % 2 = 0 THEN n \div d ELSE (n \div d) + 1

significand_times(m, e) ==
    IF e >= 0 THEN Ratio(m * Pow2(e), 1) ELSE Reduced(Ratio(m, Pow2(-e)))

float_of_scaled(s) == significand_times(nearest_even(s.n, s.d), s.e)

\* the float nearest to a non-negative fraction
float_round(r) ==
    IF r.num = 0 THEN Ratio(0, 1) ELSE float_of_scaled(float_scaled(r.num, r.den, 0))

float_add(a, b) == float_round(RatioAdd(a, b))
float_mul(a, b) == float_round(RatioMul(a, b))

\* the elements added in list order
RECURSIVE float_sum(_, _)
float_sum(s, n) ==
    IF n = 0 THEN Ratio(0, 1) ELSE float_add(float_sum(s, n - 1), float_round(s[n]))

\* np.mean of a non-empty list of floats
float_mean(s) == float_round(RatioMul(float_sum(s, Len(s)), Ratio(1, Len(s))))

\* the list in the order given by a permutation of its positions
permuted(list, order) == [i \in 1..Len(list) |-> list[order[i]]]
Orders(n) == {f \in [1..n -> 1..n] : \A i, j \in 1..n : f[i] = f[j] => i = j}

\* ---- demographic_parity
\* entries of the responses file: an answer Good for one group, an answer
\* Average and an answer with a score only for another, and a failed entry
ListedEntries ==
    { [input |-> row, output |-> send_request_result(row, o)] :
        row \in {r \in ParityRows : r.gender = Str(<<"f", "e", "m", "a", "l", "e">>)},
        o \in {p \in ParityOutcomes : p.step = "json" /\ p.data.fields.credit_score = Num(80)} }
    \cup { [input |-> row, output |-> send_request_result(row, o)] :
        row \in {r \in ParityRows : r.gender = Str(<<"m", "a", "l", "e">>)},
        o \in {p \in ParityOutcomes :
                 p.step = "json" /\ p.data.fields.credit_score \in {Num(65), Num(75)}} }
    \cup { [input |-> row, error |-> Str(<<"f", "a", "i", "l", "e", "d">>)] :
        row \in {r \in ParityRows : r.gender = Str(<<"f", "e", "m", "a", "l", "e">>)} }

entry_parsed(entry) ==
    IF "output" \in DOMAIN entry THEN parsed_of(entry.output) ELSE EmptyDict

parity_pass_restarting(acc, entry, parsed_output) ==
    IF entry_has_error(entry)
       \/ entry_unusable(Get(entry.input, "gender"), Get(parsed_output, "classification"),
                         Get(parsed_output, "credit_score"))
    THEN [acc EXCEPT !.errors_encountered = @ + 1, !.groups = EmptyDict]
    ELSE [acc EXCEPT !.groups = groups_counting(@, Get(entry.input, "gender"),
                                                Get(parsed_output, "classification"),
                                                Get(parsed_output, "credit_score"))]

\* groups and errors_encountered after one pass of "for entry in responses"
parity_pass(acc, entry, parsed_output) ==
    IF entry_has_error(entry)
       \/ entry_unusable(Get(entry.input, "gender"), Get(parsed_output, "classification"),
                         Get(parsed_output, "credit_score"))
    THEN [acc EXCEPT !.errors_encountered = @ + 1]
    ELSE [acc EXCEPT !.groups = groups_counting(@, Get(entry.input, "gender"),
                                                Get(parsed_output, "classification"),
                                                Get(parsed_output, "credit_score"))]

RECURSIVE parity_passes(_, _)
parity_passes(responses, n) ==
    IF n = 0 THEN [groups |-> EmptyDict, errors_encountered |-> 0]
    ELSE parity_pass(parity_passes(responses, n - 1), responses[n], entry_parsed(responses[n]))

\* the counts and rates of demographic_parity and the ratio taken from them
parity_aggregates(acc) ==
    [counts |-> [k \in DOMAIN acc.groups |->
                    [total |-> acc.groups[k].total,
                     positive |-> acc.groups[k].positive,
                     classifications |-> acc.groups[k].classifications,
                     errors |-> acc.groups[k].errors]],
     errors_encountered |-> acc.errors_encountered,
     rates |-> [k \in DOMAIN acc.groups |-> float_round(Reduced(group_rate(acc.groups[k])))],
     scores |-> <<float_round(disparate_impact_ratio(acc.groups))>>,
     exact |-> <<Reduced(disparate_impact_ratio(acc.groups))>>]

demographic_parity(responses) == parity_aggregates(parity_passes(responses, Len(responses)))

\* ---- analyze_robustness_results
\* records of robustness.jsonl: the example, and the exchanges of its two calls
stored_pair(k, n_original, n_perturbed) ==
    [perturbation_type |-> adversarial_example(k).perturbation_type,
     original_response |-> StoredResponse(adversarial_example(k).original_data, n_original),
     perturbed_response |-> StoredResponse(adversarial_example(k).perturbed_data, n_perturbed)]

ListedPairs ==
    {stored_pair(1, 1, 7), stored_pair(2, 1, 2), stored_pair(3, 7, 2), stored_pair(1, 5, 1)}

\* what parse_credit_decision reads in the two responses of each record
parsed_pair == 
    [p \in ListedPairs |-> <<parse_credit_decision(p.original_response),
                             parse_credit_decision(p.perturbed_response)>>]

RECURSIVE robustness_passes(_, _)
robustness_passes(responses, n) ==
    IF n = 0 THEN RobustnessLocals
    ELSE robustness_pass(robustness_passes(responses, n - 1), responses[n].perturbation_type,
                         parsed_pair[responses[n]][1], parsed_pair[responses[n]][2])

\* decision_score * 0.7 + confidence_score * 0.3 in floats
float_robustness_score(rate, differences) ==
    float_add(float_mul(float_round(rate), float_round(Ratio(7, 10))),
              float_mul(ClampUnit(RatioSub(Ratio(1, 1),
                                           IF differences # <<>> THEN float_mean(differences)
                                           ELSE Ratio(1, 2))),
                        float_round(Ratio(3, 10))))

robustness_aggregates(l, results) ==
    [counts |-> [total_examples |-> results.total_examples,
                 consistent_count |-> results.decision_consistency.consistent_count,
                 inconsistent_count |-> results.decision_consistency.inconsistent_count,
                 by_type |-> [t \in DOMAIN l.perturbation_stats |->
                                 [total |-> l.perturbation_stats[t].total,
                                  consistent_decisions |->
                                     l.perturbation_stats[t].consistent_decisions]]],
     rates |-> <<float_round(results.decision_consistency.rate)>>,
     scores |-> <<float_robustness_score(results.decision_consistency.rate,
                                         l.confidence_differences)>>,
     exact |-> <<results.robustness_score>>]

robustness_aggregates_of(l) == robustness_aggregates(l, robustness_results(l))

analyze_robustness_results(responses) ==
    robustness_aggregates_of(robustness_passes(responses, Len(responses)))

\* ---- analyze_consistency_results
\* records of consistency.jsonl: two inputs with three responses, and an input
\* that kept one response only
ListedInputs ==
    {stored_input_record(Row1, 0, <<1, 1, 7>>),
     stored_input_record(Row2, 1, <<1, 2, 2>>),
     consistency_record(Row1, 3,
        <<[input_hash |-> hash_input_data(Row1), input_data |-> Row1, repeat_number |-> 1,
           response |-> StoredResponse(Row1, 1), call_order |-> 10]>>)}

\* the normalised texts, the decisions and confidences and the pairwise
\* similarities read in the responses of each record
input_read ==
    [rec \in ListedInputs |->
        [response_texts |-> response_texts_of(rec.responses, Len(rec.responses)),
         extracted |-> extracted_of(rec.responses, Len(rec.responses))]]

input_similarities ==
    [rec \in ListedInputs |-> text_similarities_from(input_read[rec].response_texts, 1, 2)]

RECURSIVE consistency_passes(_, _)
consistency_passes(consistency_data, n) ==
    IF n = 0 THEN ConsistencyLocals
    ELSE IF Len(consistency_data[n].responses) < 2
         THEN [consistency_passes(consistency_data, n - 1) EXCEPT
                 !.total_responses = @ + Len(consistency_data[n].responses)]
    ELSE pass_with_similarities(consistency_passes(consistency_data, n - 1),
                                consistency_data[n],
                                input_read[consistency_data[n]].response_texts,
                                input_read[consistency_data[n]].extracted,
                                input_similarities[consistency_data[n]])

\* decision * 0.5 + confidence * 0.3 + mean similarity * 0.2 in floats
float_consistency_score(decision, confidence, similarities, total_inputs) ==
    IF total_inputs = 0 THEN Ratio(1, 1)
    ELSE float_add(float_add(float_mul(float_round(decision), float_round(Ratio(5, 10))),
                             float_mul(float_round(confidence), float_round(Ratio(3, 10)))),
                   float_mul(IF similarities # <<>> THEN float_mean(similarities)
                             ELSE Ratio(1, 1),
                             float_round(Ratio(2, 10))))

consistency_aggregates(l, results) ==
    [counts |-> [total_inputs |-> results.total_inputs,
                 total_responses |-> results.total_responses,
                 analysed |-> Len(results.consistency_by_input),
                 inconsistent |-> Len(results.inconsistent_cases),
                 perfect |-> l.perfect_consistent_count,
                 decision |-> l.decision_consistent_count,
                 confidence |-> l.confidence_consistent_count],
     rates |-> <<float_round(results.perfect_consistency),
                 float_round(results.decision_consistency),
                 float_round(results.confidence_consistency)>>,
     scores |-> <<float_consistency_score(results.decision_consistency,
                                          results.confidence_consistency,
                                          l.all_text_similarities, results.total_inputs)>>,
     exact |-> <<results.overall_consistency_score>>]

consistency_aggregates_of(l, total_inputs) ==
    consistency_aggregates(l, consistency_results(l, total_inputs))

analyze_consistency_results(consistency_data) ==
    consistency_aggregates_of(consistency_passes(consistency_data, Len(consistency_data)),
                              Len(consistency_data))

\* ---- the three functions on a list and on a permutation of it
OrderInit ==
    /\ agg_function \in {"demographic_parity", "analyze_robustness_results",
                         "analyze_consistency_results"}
    /\ \E n \in 0..MaxListed :
          /\ agg_list \in [1..n -> IF agg_function = "demographic_parity" THEN ListedEntries
                                   ELSE IF agg_function = "analyze_robustness_results"
                                        THEN ListedPairs
                                   ELSE ListedInputs]
          /\ agg_order \in Orders(n)
    /\ agg_results = None
    /\ ParkedButOrder

Aggregated(on_list, on_permuted) ==
    /\ agg_results = None
    /\ agg_results' = [list |-> on_list, permuted |-> on_permuted]
    /\ UNCHANGED <<agg_function, agg_list, agg_order, notOrderVars>>

DemographicParity ==
    /\ agg_function = "demographic_parity"
    /\ Aggregated(demographic_parity(agg_list), demographic_parity(permuted(agg_list, agg_order)))

AnalyzeRobustnessResults ==
    /\ agg_function = "analyze_robustness_results"
    /\ Aggregated(analyze_robustness_results(agg_list),
                  analyze_robustness_results(permuted(agg_list, agg_order)))

AnalyzeConsistencyResults ==
    /\ agg_function = "analyze_consistency_results"
    /\ Aggregated(analyze_consistency_results(agg_list),
                  analyze_consistency_results(permuted(agg_list, agg_order)))

OrderNext ==
    \/ DemographicParity
    \/ AnalyzeRobustnessResults
    \/ AnalyzeConsistencyResults

SpecOrder == OrderInit /\ [][OrderNext]_vars

RoundingSlack == Ratio(4, Pow2(SignificandBits - 1))

valid_inputs(consistency_data) == SelectSeq(consistency_data, LAMBDA rec : Len(rec.responses) >= 2)

\* C26: an input with fewer than two responses is skipped by
\* analyze_consistency_results and is not treated as inconsistent: it adds no
\* consistency_by_input entry and no inconsistent case and does not lower the
\* rates, so a list in which no input has two responses reports
\* perfect_consistency, decision_consistency, confidence_consistency and
\* overall_consistency_score = 1.0.
C26_SkippedInputsKeepRates ==
    (agg_function = "analyze_consistency_results" /\ agg_results # None) =>
        LET got == agg_results.list
            valid == analyze_consistency_results(valid_inputs(agg_list))
        IN  /\ got.counts.analysed = valid.counts.analysed
            /\ got.counts.inconsistent = valid.counts.inconsistent
            /\ got.rates = valid.rates
            /\ valid_inputs(agg_list) = <<>> =>
                  /\ \A i \in 1..3 : RatioEq(got.rates[i], Ratio(1, 1))
                  /\ RatioEq(got.exact[1], Ratio(1, 1))
                  /\ RatioEq(got.scores[1], Ratio(1, 1))

-----------------------------------------------------------------------------
(* The two normalizers on a structured oracle result:                       *)
(* robustness.parse_credit_decision, consistency.extract_decision_and_confidence, *)
(* and the confidence proxy calculate_confidence_from_score                 *)

\* The classification keywords, in lower case.
GoodKeywords == {<<"g", "o", "o", "d">>, <<"a", "p", "p", "r", "o", "v", "e", "d">>}
PoorKeywords == {<<"p", "o", "o", "r">>, <<"b", "a", "d">>, <<"d", "e", "n", "i", "e", "d">>, <<"r", "e", "j", "e", "c", "t">>}
AverageKeywords == {<<"a", "v", "e", "r", "a", "g", "e">>, <<"m", "o", "d", "e", "r", "a", "t", "e">>}
Keywords == GoodKeywords \cup PoorKeywords \cup AverageKeywords

\* str.capitalize() of a lower-case word
Capitalized(t) == <<UpperChar(t[1])>> \o SubSeq(t, 2, Len(t))

\* The classifications of the answers: every keyword in lower case,
\* capitalized and in upper case.
Classifications == UNION { {kw, Capitalized(kw), Upper(kw)} : kw \in Keywords }

\* The scores of the answers: none, the ends and the middle of the 0-100
\* scale, both sides of the thresholds 60 and 70, and two values off the scale.
ScaleScores == {0, 30, 50, 59, 60, 65, 69, 70, 75, 100}
Scores == {None} \cup {Num(n) : n \in ScaleScores \cup {-20, 150}}

Explanations == {<<>>, <<"s", "t", "a", "b", "l", "e", " ", "i", "n", "c", "o", "m", "e">>}

\* the structured answers of the gateway
StructuredAnswers ==
    { NewFormat(score, Str(class), Str(expl)) :
        score \in Scores, class \in Classifications, expl \in Explanations }

NormalizeInit ==
    /\ oracle_result \in
          { send_request_result(Row1, [step |-> "json", status_code |-> 200, data |-> d]) :
              d \in StructuredAnswers }
    /\ robustness_parsed = None
    /\ consistency_parsed = None
    /\ score_confidence = None
    /\ ParkedButNormalize

\* decision, confidence, reasoning = parse_credit_decision(response)
ParseCreditDecision ==
    /\ robustness_parsed = None
    /\ robustness_parsed' = parse_credit_decision(oracle_result)
    /\ UNCHANGED <<oracle_result, consistency_parsed, score_confidence, notNormalizeVars>>

\* decision, confidence = extract_decision_and_confidence(response)
ExtractDecisionAndConfidence ==
    /\ consistency_parsed = None
    /\ consistency_parsed' = extract_decision_and_confidence(oracle_result)
    /\ UNCHANGED <<oracle_result, robustness_parsed, score_confidence, notNormalizeVars>>

\* calculate_confidence_from_score(credit_score), on the score of the answer
CalculateConfidenceFromScore ==
    /\ score_confidence = None
    /\ score_confidence' =
          [confidence |-> calculate_confidence_from_score(oracle_result.parsed.credit_score)]
    /\ UNCHANGED <<oracle_result, robustness_parsed, consistency_parsed, notNormalizeVars>>

NormalizeNext ==
    \/ ParseCreditDecision
    \/ ExtractDecisionAndConfidence
    \/ CalculateConfidenceFromScore

SpecNormalize == NormalizeInit /\ [][NormalizeNext]_vars

\* the classification of the answer in lower case, and its score
classification_lower == Lower(oracle_result.parsed.classification.str)
answer_score == oracle_result.parsed.credit_score
OnScale(score) == IsNone(score) \/ score.num \in 0..100

\* C14: calculate_confidence_from_score returns 0.5 + 0.5 * |score - 50| / 50
\* capped at 1.0: 0.5 for score 50, 1.0 for 0 and 100, 0.75 for 75, a value of
\* [0.5, 1.0] for every numeric score, and null for a null score.
C14_ConfidenceProxy ==
    score_confidence # None =>
        IF IsNone(answer_score) THEN IsNone(score_confidence.confidence)
        ELSE /\ ~IsNone(score_confidence.confidence)
             /\ score_confidence.confidence.den > 0
             /\ 2 * score_confidence.confidence.num >= score_confidence.confidence.den
             /\ score_confidence.confidence.num <= score_confidence.confidence.den
             /\ Abs(answer_score.num - 50) <= 50 =>
                   100 * score_confidence.confidence.num
                      = (50 + Abs(answer_score.num - 50)) * score_confidence.confidence.den
             /\ Abs(answer_score.num - 50) > 50 =>
                   score_confidence.confidence.num = score_confidence.confidence.den
             /\ answer_score = Num(50) => RatioEq(score_confidence.confidence, Ratio(1, 2))
             /\ answer_score \in {Num(0), Num(100)} =>
                   RatioEq(score_confidence.confidence, Ratio(1, 1))
             /\ answer_score = Num(75) => RatioEq(score_confidence.confidence, Ratio(3, 4))

\* The proxy has been computed for a score beyond the scale, where the cap
\* applies.
C14_Witness ==
    /\ score_confidence # None
    /\ answer_score = Num(150)
    /\ RatioEq(score_confidence.confidence, Ratio(1, 1))

\* the label of an "average" or "moderate" classification by the score rule
average_label(score) ==
    IF IsNone(score) THEN Label("average")
    ELSE IF score.num >= 70 THEN Label("good")
    ELSE IF score.num < 60 THEN Label("poor")
    ELSE Label("average")

family_label(class_lower, score) ==
    IF class_lower \in GoodKeywords THEN Label("good")
    ELSE IF class_lower \in PoorKeywords THEN Label("poor")
    ELSE average_label(score)

\* C16: for a structured result whose classification is one of the keywords
\* good, approved, poor, bad, denied, reject, average, moderate in any case,
\* parse_credit_decision and extract_decision_and_confidence both give the
\* label of the keyword's family, hence the same label.
C16_SameLabelForKeywordFamilies ==
    (oracle_result # None /\ OnScale(answer_score)) =>
        /\ robustness_parsed # None =>
              robustness_parsed.decision = family_label(classification_lower, answer_score)
        /\ consistency_parsed # None =>
              /\ ~IsRaised(consistency_parsed)
              /\ consistency_parsed.decision = family_label(classification_lower, answer_score)
        /\ (robustness_parsed # None /\ consistency_parsed # None) =>
              robustness_parsed.decision = consistency_parsed.decision

-----------------------------------------------------------------------------
(* app.py: start_analysis and run_analysis_background, with the global      *)
(* analysis_status and the global response collector                        *)

\* Bounds on the invocations of run_analysis_background and on the
\* send_request calls of one invocation.
MaxThreads == 2
MaxSends == 2

Threads == 1..MaxThreads

\* analysis_status as the module defines it; writer is the invocation that
\* wrote it last (0: none), kept for the properties
ReadyStatus ==
    [running |-> FALSE, completed |-> FALSE, error |-> None, progress |-> 0,
     message |-> "Ready to start analysis", writer |-> 0]

ConcurrentInit ==
    /\ thread_pc = [t \in Threads |-> "idle"]
    /\ sent = [t \in Threads |-> 0]
    /\ global_collector = <<>>
    /\ analysis_status = ReadyStatus
    /\ ParkedButConcurrent

\* POST /start_analysis: refused while analysis_status["running"], otherwise a
\* thread is started on run_analysis_background
StartAnalysis(t) ==
    /\ thread_pc[t] = "idle"
    /\ ~analysis_status.running
    /\ thread_pc' = [thread_pc EXCEPT ![t] = "reset"]
    /\ UNCHANGED <<sent, global_collector, analysis_status, notConcurrentVars>>

\* reset_collector(): global_collector.clear()
ResetCollector(t) ==
    /\ thread_pc[t] = "reset"
    /\ global_collector' = <<>>
    /\ thread_pc' = [thread_pc EXCEPT ![t] = "starting"]
    /\ UNCHANGED <<sent, analysis_status, notConcurrentVars>>

\* analysis_status["running"] = True ... "Starting analysis..."
MarkRunning(t) ==
    /\ thread_pc[t] = "starting"
    /\ analysis_status' = [running |-> TRUE, completed |-> FALSE, error |-> None,
                  progress |-> 5, message |-> "Starting analysis...", writer |-> t]
    /\ thread_pc' = [thread_pc EXCEPT ![t] = "running"]
    /\ UNCHANGED <<sent, global_collector, notConcurrentVars>>

\* one pass of an engine's collection loop: the progress message written
\* through the status reference, then send_request, which appends its record
\* to the global collector
EngineCall(t) ==
    /\ thread_pc[t] = "running"
    /\ sent[t] < MaxSends
    /\ analysis_status' = [analysis_status EXCEPT !.progress = 30 + sent[t],
                                                   !.message = "Making API call",
                                                   !.writer = t]
    /\ global_collector' = Append(global_collector, [invocation |-> t, call |-> sent[t] + 1])
    /\ sent' = [sent EXCEPT ![t] = @ + 1]
    /\ UNCHANGED <<thread_pc, notConcurrentVars>>

\* "All analyses completed!"
MarkCompleted(t) ==
    /\ thread_pc[t] = "running"
    /\ analysis_status' = [analysis_status EXCEPT !.progress = 100,
                                                   !.message = "All analyses completed!",
                                                   !.completed = TRUE,
                                                   !.running = FALSE,
                                                   !.writer = t]
    /\ thread_pc' = [thread_pc EXCEPT ![t] = "done"]
    /\ UNCHANGED <<sent, global_collector, notConcurrentVars>>

\* except Exception as e: an exception of clear_analysis_cache, of an engine
\* or of a report builder ends the invocation; completed and progress are
\* left as they are
RunFails(t) ==
    /\ thread_pc[t] \in {"starting", "running"}
    /\ analysis_status' = [analysis_status EXCEPT !.running = FALSE,
                                                   !.error = Str(<<"f", "a", "i", "l", "e", "d">>),
                                                   !.message = "Error: str(e)",
                                                   !.writer = t]
    /\ thread_pc' = [thread_pc EXCEPT ![t] = "failed"]
    /\ UNCHANGED <<sent, global_collector, notConcurrentVars>>

ConcurrentNext ==
    \E t \in Threads :
        \/ StartAnalysis(t)
        \/ ResetCollector(t)
        \/ MarkRunning(t)
        \/ EngineCall(t)
        \/ MarkCompleted(t)
        \/ RunFails(t)

SpecConcurrent == ConcurrentInit /\ [][ConcurrentNext]_vars

\* the records of an invocation in the collector
records_of(t, all) == SelectSeq(all, LAMBDA r : r.invocation = t)

\* the invocation has been started and has not finished
InFlight(t) == thread_pc[t] \in {"reset", "starting", "running"}

\* C20: two invocations that run at the same time do not interfere: no step
\* of one removes or changes the responses recorded for the other, or
\* overwrites the status the other has reported and not finished with.
C20_NoInterference ==
    [][ \A t \in Threads, u \in Threads :
          (t # u /\ InFlight(t)
           /\ (thread_pc'[u] # thread_pc[u] \/ sent'[u] # sent[u]))
          => /\ records_of(t, global_collector') = records_of(t, global_collector)
             /\ analysis_status.writer = t => analysis_status' = analysis_status ]_vars

\* C27: at most one run_analysis_background execution is in progress at any
\* time: a request that arrives after another was accepted and before that
\* run has finished is rejected and starts no second thread.
C27_AtMostOneRun == Cardinality({t \in Threads : InFlight(t)}) <= 1

\* C28: from the moment a request is accepted until its run has finished,
\* the status never reports completed = true and never an error of an
\* earlier run.
C28_NoStaleOutcome ==
    \A t \in Threads :
        InFlight(t) => /\ ~analysis_status.completed
                       /\ ~IsNone(analysis_status.error) => analysis_status.writer = t

-----------------------------------------------------------------------------
(* app.py: one accepted request and its run_analysis_background, from the   *)
(* validation in start_analysis to the final status: the status reference   *)
(* handed to each selected engine, the analyses in their fixed order, the   *)
(* report builders and the exception handler.                               *)

\* the analyses in the order of run_analysis_background, with the form key
\* that selects each
ANALYSES ==
    <<"bias_fairness", "accuracy", "robustness", "consistency", "transparency", "data_quality">>
FORM_KEY ==
    [bias_fairness |-> "run_bias", accuracy |-> "run_accuracy", robustness |-> "run_robustness",
     consistency |-> "run_consistency", transparency |-> "run_transparency",
     data_quality |-> "run_data_quality"]

\* progress_ranges
progress_ranges ==
    [bias_fairness |-> <<10, 55>>, robustness |-> <<55, 72>>, transparency |-> <<72, 83>>,
     consistency |-> <<83, 89>>, accuracy |-> <<89, 94>>, data_quality |-> <<94, 98>>]

\* a call with nargs positional arguments of a function that takes between
\* required and accepted of them: TypeError outside that range
call_fits(nargs, params) == params[1] <= nargs /\ nargs <= params[2]

\* def set_status_reference(...) of each engine: required and accepted
\* positional parameters
set_status_reference_params ==
    [bias_fairness |-> <<1, 1>>, accuracy |-> <<1, 1>>, robustness |-> <<1, 1>>,
     consistency |-> <<1, 1>>, transparency |-> <<1, 3>>, data_quality |-> <<1, 1>>]
\* the arguments run_analysis_background passes to it
set_status_reference_args ==
    [bias_fairness |-> 3, accuracy |-> 1, robustness |-> 1, consistency |-> 1,
     transparency |-> 3, data_quality |-> 1]

\* def generate_data_quality_summary(responses), and the call
\* generate_data_quality_summary() in run_comprehensive_data_quality_analysis
generate_data_quality_summary_params == <<1, 1>>
generate_data_quality_summary_args == 0

\* the analyses whose run function calls something with the wrong arguments
run_raises_type_error(engine) ==
    engine = "data_quality"
    /\ ~call_fits(generate_data_quality_summary_args, generate_data_quality_summary_params)

FormData == [{FORM_KEY[e] : e \in DOMAIN FORM_KEY} -> BOOLEAN]

\* start_analysis: at least one of bias, accuracy, robustness, consistency,
\* transparency is selected (the credentials are filled in)
accepted(form) ==
    \/ form["run_bias"] \/ form["run_accuracy"] \/ form["run_robustness"]
    \/ form["run_consistency"] \/ form["run_transparency"]

selected(form, engine) == form[FORM_KEY[engine]]

\* the selected analyses in the fixed order
selected_in_order(form) == SelectSeq(ANALYSES, LAMBDA e : selected(form, e))

BackgroundInit ==
    /\ form_data = None
    /\ bg_pc = "idle"
    /\ bg_engine = 0
    /\ bg_phase = "select"
    /\ bg_status = [running |-> FALSE, completed |-> FALSE, error |-> None, progress |-> 0]
    /\ status_references = {}
    /\ analyses_run = <<>>
    /\ env_failed = FALSE
    /\ ParkedButBackground

\* except Exception as e: running = False, error = str(e)
status_on_exception(status, exc) ==
    [status EXCEPT !.running = FALSE, !.error = Str(exc)]

\* the step after the block of the analysis at position i
AfterBlock(i) ==
    IF i < Len(ANALYSES)
    THEN bg_engine' = i + 1 /\ bg_phase' = "select" /\ bg_pc' = "engines"
    ELSE bg_engine' = i /\ bg_phase' = "select" /\ bg_pc' = "finishing"

\* an exception reaches the handler: the invocation ends
Excepted(status, exc) ==
    /\ bg_status' = status_on_exception(status, exc)
    /\ bg_pc' = "ended"
    /\ UNCHANGED <<bg_engine, bg_phase>>

\* POST /start_analysis with a form that passes the validation: a thread is
\* started. A form that does not pass is answered 400 and changes nothing.
BgStartAnalysis(form) ==
    /\ bg_pc = "idle"
    /\ ~bg_status.running
    /\ accepted(form)
    /\ form_data' = form
    /\ bg_pc' = "reset"
    /\ UNCHANGED <<bg_engine, bg_phase, bg_status, status_references, analyses_run, env_failed>>
    /\ UNCHANGED notBackgroundVars

\* reset_collector, clear_analysis_cache, then running = True, progress = 5
BgBegin ==
    /\ bg_pc = "reset"
    /\ bg_status' = [running |-> TRUE, completed |-> FALSE, error |-> None, progress |-> 5]
    /\ bg_pc' = "engines"
    /\ bg_engine' = 1
    /\ bg_phase' = "select"
    /\ UNCHANGED <<form_data, status_references, analyses_run, env_failed>>
    /\ UNCHANGED notBackgroundVars

\* if form_data["run_..."]: progress = start_progress
BgSelect ==
    /\ bg_pc = "engines" /\ bg_phase = "select"
    /\ IF selected(form_data, ANALYSES[bg_engine])
       THEN /\ bg_status' = [bg_status EXCEPT !.progress = progress_ranges[ANALYSES[bg_engine]][1]]
            /\ bg_phase' = "reference"
            /\ UNCHANGED <<bg_pc, bg_engine>>
       ELSE /\ AfterBlock(bg_engine)
            /\ UNCHANGED bg_status
    /\ UNCHANGED <<form_data, status_references, analyses_run, env_failed>>
    /\ UNCHANGED notBackgroundVars

\* set_status_reference(analysis_status, ...) of the engine
BgSetStatusReference ==
    /\ bg_pc = "engines" /\ bg_phase = "reference"
    /\ LET engine == ANALYSES[bg_engine] IN
       IF call_fits(set_status_reference_args[engine], set_status_reference_params[engine])
       THEN /\ status_references' = status_references \cup {engine}
            /\ bg_phase' = "run"
            /\ UNCHANGED <<bg_pc, bg_engine, bg_status>>
       ELSE /\ Excepted(bg_status, <<"T", "y", "p", "e", "E", "r", "r", "o", "r">>)
            /\ UNCHANGED status_references
    /\ UNCHANGED <<form_data, analyses_run, env_failed>>
    /\ UNCHANGED notBackgroundVars

\* run_bias_analysis(), ..., run_comprehensive_data_quality_analysis(): the
\* analysis ends, or an oracle call or a dataset read of it fails. The data
\* quality analysis writes progress 95 through its reference before it
\* calls generate_data_quality_summary.
BgRunAnalysis(ok) ==
    /\ bg_pc = "engines" /\ bg_phase = "run"
    /\ LET engine == ANALYSES[bg_engine]
           inside == IF engine = "data_quality" /\ engine \in status_references
                     THEN [bg_status EXCEPT !.progress = 95] ELSE bg_status
       IN  IF run_raises_type_error(engine)
           THEN /\ Excepted(inside, <<"T", "y", "p", "e", "E", "r", "r", "o", "r">>)
                /\ UNCHANGED <<analyses_run, env_failed>>
           ELSE IF ~ok
           THEN /\ Excepted(inside, <<"f", "a", "i", "l", "e", "d">>)
                /\ env_failed' = TRUE
                /\ UNCHANGED analyses_run
           ELSE /\ analyses_run' = Append(analyses_run, engine)
                /\ bg_status' = IF engine = "data_quality" /\ engine \in status_references
                                THEN [bg_status EXCEPT !.progress = 98] ELSE bg_status
                /\ bg_phase' = "report"
                /\ UNCHANGED <<bg_pc, bg_engine, env_failed>>
    /\ UNCHANGED <<form_data, status_references>>
    /\ UNCHANGED notBackgroundVars

\* progress = end_progress - 2 (bias) or - 1, then build_..._report(results)
BgBuildReport(ok) ==
    /\ bg_pc = "engines" /\ bg_phase = "report"
    /\ LET engine == ANALYSES[bg_engine]
           building == [bg_status EXCEPT !.progress =
                           progress_ranges[engine][2] - (IF engine = "bias_fairness" THEN 2 ELSE 1)]
       IN  IF ok
           THEN /\ bg_status' = building
                /\ AfterBlock(bg_engine)
                /\ UNCHANGED env_failed
           ELSE /\ Excepted(building, <<"f", "a", "i", "l", "e", "d">>)
                /\ env_failed' = TRUE
    /\ UNCHANGED <<form_data, status_references, analyses_run>>
    /\ UNCHANGED notBackgroundVars

\* progress = 100, completed = True, running = False
BgFinish ==
    /\ bg_pc = "finishing"
    /\ bg_status' = [bg_status EXCEPT !.progress = 100, !.completed = TRUE, !.running = FALSE]
    /\ bg_pc' = "ended"
    /\ UNCHANGED <<form_data, bg_engine, bg_phase, status_references, analyses_run, env_failed>>
    /\ UNCHANGED notBackgroundVars

BackgroundNext ==
    \/ \E form \in FormData : BgStartAnalysis(form)
    \/ BgBegin
    \/ BgSelect
    \/ BgSetStatusReference
    \/ \E ok \in BOOLEAN : BgRunAnalysis(ok)
    \/ \E ok \in BOOLEAN : BgBuildReport(ok)
    \/ BgFinish

\* the thread of an accepted request runs until run_analysis_background returns
SpecBackground == BackgroundInit /\ [][BackgroundNext]_vars /\ WF_vars(BackgroundNext)

\* the run went through every selected analysis once, in the fixed order, each
\* with the status reference, and reported completion
CompletedInOrder ==
    /\ bg_pc = "ended"
    /\ analyses_run = selected_in_order(form_data)
    /\ status_references = {e \in DOMAIN FORM_KEY : selected(form_data, e)}
    /\ ~bg_status.running /\ bg_status.completed
    /\ IsNone(bg_status.error) /\ bg_status.progress = 100

\* C29: for every accepted start request, if no oracle call, dataset read or
\* report write fails, run_analysis_background hands the status reference to
\* each selected engine and runs each selected analysis exactly once in the
\* order bias, accuracy, robustness, consistency, transparency, data quality,
\* and the status eventually reaches running = false, completed = true,
\* error = null, progress = 100.
C29_AcceptedRunCompletes == (bg_pc = "reset") ~> (env_failed \/ CompletedInOrder)

-----------------------------------------------------------------------------
(* analysis/transparency.py: generate_lime_explanation with                 *)
(* CreditProfilePerturbator.perturb, extract_credit_score,                  *)
(* calculate_profile_distance and vectorize_profile, and the two analyses   *)
(* that read its result: analyze_lime_alignment and                         *)
(* analyze_explanation_completeness.                                        *)
(* The numpy random draws and the scikit-learn fit are taken by their       *)
(* outcome; the kernel weight exp(-d^2 / 1.125) is not carried.             *)

\* n_samples of the calls explored
MaxLimeSamples == 2

\* 650.0: the score of a sample whose score cannot be read
NEUTRAL_SCORE == 650

\* for key in ['credit_score', 'score', 'prediction', 'result']
SCORE_KEYS == <<"credit_score", "score", "prediction", "result">>

IsDict(v) == ~IsNone(v) /\ ~IsNum(v) /\ ~IsStr(v) /\ ~IsRaised(v)

\* extract_credit_score: the first of SCORE_KEYS in the response as a float,
\* else the same of api_response['response'], else 650.0; any exception
\* (float() of a text that is no number, of None, of a dict) gives 650.0.
RECURSIVE extract_credit_score(_)
extract_credit_score(api_response) ==
    IF ~IsDict(api_response) THEN NEUTRAL_SCORE
    ELSE LET found == {i \in 1..Len(SCORE_KEYS) : SCORE_KEYS[i] \in DOMAIN api_response} IN
         IF found # {}
         THEN LET key == SCORE_KEYS[CHOOSE i \in found : \A j \in found : i <= j]
                  value == float_of(api_response[key])
              IN  IF IsNum(value) THEN value.num ELSE NEUTRAL_SCORE
         ELSE IF "response" \in DOMAIN api_response
              THEN extract_credit_score(api_response["response"])
              ELSE NEUTRAL_SCORE

\* try: prediction = send_request(...); score = extract_credit_score(prediction)
\* except: score = 650.0
sample_score(prediction) ==
    IF IsRaised(prediction) THEN NEUTRAL_SCORE ELSE extract_credit_score(prediction)

\* _get_feature_ranges: the numerical ranges of the features a profile has
FEATURE_RANGES == [age |-> <<18, 80>>, income |-> <<20000, 200000>>, credit_score |-> <<300, 850>>]

\* the gaussian noise drawn for a numerical feature
Noises == {0, 150000}

\* perturb: a numerical feature in feature_ranges that holds a number gets
\* max(min_val, min(max_val, value + noise)); every other feature is kept.
perturb(original, noise) ==
    [feature \in DOMAIN original |->
        IF feature \in DOMAIN FEATURE_RANGES /\ IsNum(original[feature])
        THEN Num(Max(FEATURE_RANGES[feature][1],
                     Min(FEATURE_RANGES[feature][2], original[feature].num + noise)))
        ELSE original[feature]]

numerical_features ==
    <<"age", "income", "credit_score", "employment_length", "debt_to_income",
      "credit_utilization", "savings_account">>

\* calculate_profile_distance: float() of every numerical feature both profiles
\* have; the income term |val1 - val2| / 180000. The first float() that fails
\* raises ValueError. The profiles explored hold no other numerical feature.
calculate_profile_distance(profile1, profile2) ==
    LET shared == {i \in 1..Len(numerical_features) :
                     /\ numerical_features[i] \in DOMAIN profile1
                     /\ numerical_features[i] \in DOMAIN profile2}
        failing == {i \in shared : \/ IsRaised(float_of(profile1[numerical_features[i]]))
                                   \/ IsRaised(float_of(profile2[numerical_features[i]]))}
    IN  IF failing # {} THEN Raised("ValueError")
        ELSE [terms |-> [i \in shared |->
                Ratio(Abs(float_of(profile1[numerical_features[i]]).num
                          - float_of(profile2[numerical_features[i]]).num), 180000)]]

\* vectorize_profile: float(profile.get(feature, 0)) of the numerical features,
\* then the one-hot housing ('rent' by default) and employment ('employed')
vectorize_profile(p) ==
    [i \in 1..Len(numerical_features) |-> float_of(GetOr(p, numerical_features[i], Num(0)))]
    \o <<Num(1), Num(0), Num(0)>> \o <<Num(1), Num(0), Num(0), Num(0)>>

\* a profile whose income column was read as text
UnreadableProfile == [Row1 EXCEPT !.income = Str(<<"n", "/", "a">>)]
LimeProfiles == {Row1, Row2, UnreadableProfile}

\* LinearRegression().fit and r2_score: an exception, or r2 and the
\* coefficients of the features (those not listed are 0).
FitOutcomes ==
    { [raises |-> "ValueError"],
      [r2 |-> Ratio(1, 1), coef |-> [income |-> Ratio(1, 2), age |-> Ratio(-1, 20)]],
      [r2 |-> Ratio(0, 1), coef |-> [income |-> Ratio(0, 1), age |-> Ratio(0, 1)]] }

\* get_feature_names()
feature_names ==
    <<"age", "income", "credit_score", "employment_length", "debt_to_income",
      "credit_utilization", "savings_account", "housing_rent", "housing_own",
      "housing_mortgage", "employment_employed", "employment_unemployed",
      "employment_self_employed", "employment_retired">>

\* n_features of generate_lime_explanation, and [:5] of analyze_lime_alignment
N_FEATURES == 10
TOP_LIME == 5

RatioAbs(r) == Ratio(Abs(r.num), r.den)

\* sort(key=lambda x: abs(x[1]), reverse=True)[:n]: the pairs by falling
\* absolute value, equal ones in their old order, cut after n
top_by_abs(pairs, n) ==
    LET before(i, j) == \/ ~RatioLe(RatioAbs(pairs[i][2]), RatioAbs(pairs[j][2]))
                        \/ (RatioEq(RatioAbs(pairs[i][2]), RatioAbs(pairs[j][2])) /\ i < j)
        place(i) == 1 + Cardinality({j \in 1..Len(pairs) : before(j, i)})
        at(k) == CHOOSE i \in 1..Len(pairs) : place(i) = k
    IN  [k \in 1..Min(n, Len(pairs)) |-> pairs[at(k)]]

\* except Exception as e: the result returned for any exception
lime_reraises(exc) == Raised(exc)
lime_on_exception(exc) ==
    [error |-> exc, local_model_r2 |-> Ratio(0, 1), feature_importance |-> <<>>,
     top_positive_features |-> <<>>, top_negative_features |-> <<>>,
     original_prediction |-> EmptyDict, samples_generated |-> 0]

\* the result returned after a fit
lime_fitted(fit, samples, original_prediction) ==
    LET importance_pairs ==
            [i \in 1..Len(feature_names) |->
                <<feature_names[i], GetOr(fit.coef, feature_names[i], Ratio(0, 1))>>]
        top_features == top_by_abs(importance_pairs, N_FEATURES)
    IN  [local_model_r2 |-> fit.r2,
         feature_importance |-> top_features,
         top_positive_features |-> SelectSeq(top_features, LAMBDA f : f[2].num > 0),
         top_negative_features |-> SelectSeq(top_features, LAMBDA f : f[2].num < 0),
         original_prediction |-> original_prediction,
         samples_generated |-> Len(samples)]

\* How an explanation speaks of a feature: not at all, or in a sentence with
\* words of rising ('increase', 'higher', ...), of falling ('decrease',
\* 'lower', ...), or neither.
Mentions ==
    { [f \in {"income", "age"} |-> "absent"],
      [income |-> "positive", age |-> "absent"],
      [income |-> "negative", age |-> "plain"] }
mention_of(mentioned, feature) == GetOr(mentioned, feature, "absent")

\* analyze_lime_alignment
analyze_lime_alignment(mentioned, results) ==
    IF "error" \in DOMAIN results
    THEN [alignment_score |-> Ratio(0, 1), coverage_score |-> Ratio(0, 1),
          direction_agreement |-> Ratio(0, 1), error |-> "LIME analysis failed"]
    ELSE IF results.feature_importance = <<>>
    THEN [alignment_score |-> Ratio(0, 1), coverage_score |-> Ratio(0, 1),
          direction_agreement |-> Ratio(0, 1), error |-> "No LIME importance available"]
    ELSE LET top_lime_features == top_by_abs(results.feature_importance, TOP_LIME)
             covered == {k \in 1..Len(top_lime_features) :
                            mention_of(mentioned, top_lime_features[k][1]) # "absent"}
             agreeing == {k \in covered :
                            \/ /\ top_lime_features[k][2].num > 0
                               /\ mention_of(mentioned, top_lime_features[k][1]) = "positive"
                            \/ /\ top_lime_features[k][2].num <= 0
                               /\ mention_of(mentioned, top_lime_features[k][1]) = "negative"}
             coverage_score == Reduced(Ratio(Cardinality(covered), Max(Len(top_lime_features), 1)))
             direction_agreement == Reduced(Ratio(Cardinality(agreeing), Max(Cardinality(covered), 1)))
         IN  [alignment_score |-> RatioMul(RatioAdd(coverage_score, direction_agreement), Ratio(1, 2)),
              coverage_score |-> coverage_score,
              direction_agreement |-> direction_agreement]

\* analyze_explanation_completeness, importance_threshold = 0.1
analyze_explanation_completeness(mentioned, results) ==
    IF "error" \in DOMAIN results
    THEN [completeness_score |-> Ratio(0, 1), important_features_covered |-> 0,
          total_important_features |-> 0, error |-> "LIME analysis failed"]
    ELSE LET lime_importance == results.feature_importance
             important == {k \in 1..Len(lime_importance) :
                              RatioLe(Ratio(1, 10), RatioAbs(lime_importance[k][2]))}
             covered_important == {k \in important :
                              mention_of(mentioned, lime_importance[k][1]) # "absent"}
         IN  [completeness_score |->
                  Reduced(Ratio(Cardinality(covered_important), Max(Cardinality(important), 1))),
              important_features_covered |-> Cardinality(covered_important),
              total_important_features |-> Cardinality(important)]

LimeInit ==
    /\ profile \in LimeProfiles
    /\ n_samples \in 0..MaxLimeSamples
    /\ lime_pc = "sampling"
    /\ perturbed_samples = <<>>
    /\ predictions = <<>>
    /\ lime_results = None
    /\ lime_analysis = None
    /\ ParkedButLime

\* one pass of "for i in range(n_samples)"
LimeSample(outcome, noise) ==
    /\ lime_pc = "sampling"
    /\ Len(perturbed_samples) < n_samples
    /\ LET perturbed_profile == perturb(profile, noise)
           prediction == send_request_result(perturbed_profile, outcome)
           score == sample_score(prediction)
           distance == calculate_profile_distance(profile, perturbed_profile)
       IN  /\ predictions' = Append(predictions, prediction)
           /\ IF IsRaised(distance)
              THEN /\ lime_results' = lime_on_exception(distance.raised)
                   /\ lime_pc' = "returned"
                   /\ UNCHANGED perturbed_samples
              ELSE /\ perturbed_samples' = Append(perturbed_samples,
                          [features |-> vectorize_profile(perturbed_profile), score |-> score])
                   /\ UNCHANGED <<lime_results, lime_pc>>
    /\ UNCHANGED <<profile, n_samples, lime_analysis>>
    /\ UNCHANGED notLimeVars

\* the fit, the importances, the call for the original profile, the return
LimeFit(fit, outcome) ==
    /\ lime_pc = "sampling"
    /\ Len(perturbed_samples) = n_samples
    /\ LET original_prediction == send_request_result(profile, outcome) IN
       lime_results' =
           IF "raises" \in DOMAIN fit THEN lime_on_exception(fit.raises)
           ELSE IF IsRaised(original_prediction) THEN lime_on_exception(original_prediction.raised)
           ELSE lime_fitted(fit, perturbed_samples, original_prediction)
    /\ lime_pc' = "returned"
    /\ UNCHANGED <<profile, n_samples, perturbed_samples, predictions, lime_analysis>>
    /\ UNCHANGED notLimeVars

\* 'lime_alignment' and 'completeness' of the transparency analysis
LimeAnalyses(mentioned) ==
    /\ lime_pc = "returned"
    /\ ~IsRaised(lime_results)
    /\ lime_analysis' = [lime_alignment |-> analyze_lime_alignment(mentioned, lime_results),
                         completeness |-> analyze_explanation_completeness(mentioned, lime_results)]
    /\ lime_pc' = "analysed"
    /\ UNCHANGED <<profile, n_samples, perturbed_samples, predictions, lime_results>>
    /\ UNCHANGED notLimeVars

LimeNext ==
    \/ \E outcome \in CollectOutcomes, noise \in Noises : LimeSample(outcome, noise)
    \/ \E fit \in FitOutcomes, outcome \in CollectOutcomes : LimeFit(fit, outcome)
    \/ \E mentioned \in Mentions : LimeAnalyses(mentioned)

SpecLime == LimeInit /\ [][LimeNext]_vars

\* the score the gateway returned for a sample: parsed.credit_score of a
\* successful result
gateway_score(prediction) ==
    IF /\ IsDict(prediction)
       /\ "status" \in DOMAIN prediction
       /\ prediction.status = "success"
       /\ IsNum(GetOr(parsed_of(prediction), "credit_score", None))
    THEN parsed_of(prediction).credit_score
    ELSE None

\* C24: for every perturbed profile whose oracle call succeeds, the regression
\* target of the sample is the score the gateway returned, also when the score
\* is nested under 'parsed' as send_request returns it; the neutral score is
\* used only when the call fails.
C24_TargetIsGatewayScore ==
    \A i \in 1..Len(perturbed_samples) :
        IF IsNum(gateway_score(predictions[i]))
        THEN perturbed_samples[i].score = gateway_score(predictions[i]).num
        ELSE perturbed_samples[i].score = NEUTRAL_SCORE

\* a sample whose call succeeded with a score other than the neutral one
C24_Witness ==
    \E i \in 1..Len(perturbed_samples) :
        /\ IsNum(gateway_score(predictions[i]))
        /\ gateway_score(predictions[i]).num # NEUTRAL_SCORE

\* C25: generate_lime_explanation never raises; every sample is kept, a failed
\* call with the neutral score, so a result of a fit reports
\* samples_generated = n_samples; a result without a fit carries 'error',
\* local_model_r2 = 0.0 and no feature_importance, and analyze_lime_alignment
\* and analyze_explanation_completeness give it scores of 0.0.
C25_NeverRaisesAndErrorScoresZero ==
    /\ ~IsRaised(lime_results)
    /\ \A i \in 1..Len(perturbed_samples) :
          ~IsNum(gateway_score(predictions[i])) => perturbed_samples[i].score = NEUTRAL_SCORE
    /\ lime_pc \in {"returned", "analysed"} =>
          IF "error" \in DOMAIN lime_results
          THEN /\ lime_results.local_model_r2 = Ratio(0, 1)
               /\ lime_results.feature_importance = <<>>
               /\ lime_pc = "analysed" =>
                     /\ lime_analysis.lime_alignment.alignment_score = Ratio(0, 1)
                     /\ lime_analysis.lime_alignment.coverage_score = Ratio(0, 1)
                     /\ lime_analysis.lime_alignment.direction_agreement = Ratio(0, 1)
                     /\ lime_analysis.completeness.completeness_score = Ratio(0, 1)
          ELSE /\ lime_results.samples_generated = n_samples
               /\ Len(perturbed_samples) = n_samples

\* an exception inside the body was turned into an error result and analysed,
\* after a sample whose call failed
C25_Witness ==
    /\ lime_pc = "analysed"
    /\ "error" \in DOMAIN lime_results
    /\ n_samples > 0
    /\ \E i \in 1..Len(predictions) : ~IsNum(gateway_score(predictions[i]))

-----------------------------------------------------------------------------
(* analysis/transparency.py: calculate_explanation_quality_score *)

\* Dimension scores are multiples of 1/ScoreSteps in [0,1]; every score of the
\* model, and overall_score, is held as that multiple (an integer).
ScoreSteps == 2

Dimensions ==
    {"faithfulness", "lime_alignment", "specificity", "completeness",
     "consistency", "counterfactual", "readability"}

weights_swapped ==
    [faithfulness |-> 15, lime_alignment |-> 25, specificity |-> 25,
     completeness |-> 15, consistency |-> 10, counterfactual |-> 5,
     readability |-> 5]

weights ==
    [faithfulness |-> 25, lime_alignment |-> 25, specificity |-> 15,
     completeness |-> 15, consistency |-> 10, counterfactual |-> 5,
     readability |-> 5]

\* analysis_results.get(dim, {}).get(key, 0): a missing dimension counts as 0.
scores(results) ==
    [dim \in Dimensions |->
        IF dim \in DOMAIN results.dims THEN results.dims[dim] ELSE 0]

RECURSIVE SumOver(_, _)
SumOver(f, S) ==
    IF S = {} THEN 0
    ELSE LET d == CHOOSE x \in S : TRUE IN f[d] + SumOver(f, S \ {d})

\* sum(scores[dim] * weights[dim] for dim in weights.keys())
weighted_sum(results) ==
    SumOver([dim \in Dimensions |-> scores(results)[dim] * weights[dim]], Dimensions)

\* analysis_results.get('compliance', {}).get('compliant', True)
is_compliant(results) ==
    IF IsNone(results.compliance) THEN TRUE ELSE results.compliance.bool

ApplyComplianceGateUncapped(weighted_score, compliant) == weighted_score

\* if not is_compliant: weighted_score = min(weighted_score, 20)
ApplyComplianceGate(weighted_score, compliant) ==
    IF ~compliant THEN Min(weighted_score, 20 * ScoreSteps) ELSE weighted_score

quality_category(weighted_score) ==
    IF weighted_score >= 90 * ScoreSteps THEN "excellent"
    ELSE IF weighted_score >= 80 * ScoreSteps THEN "good"
    ELSE IF weighted_score >= 70 * ScoreSteps THEN "fair"
    ELSE "poor"

calculate_explanation_quality_score(results) ==
    LET compliant == is_compliant(results)
        weighted_score == ApplyComplianceGate(weighted_sum(results), compliant)
    IN  [overall_score |-> weighted_score,
         category |-> quality_category(weighted_score),
         dimension_scores |-> scores(results),
         compliance_gate_applied |-> ~compliant,
         is_compliant |-> compliant]

\* The analysis results handed to the scorer: each dimension missing or scored,
\* the compliance entry missing, True or False.
AnalysisResultsInputs ==
    { [dims |-> d, compliance |-> c] :
        d \in UNION { [S -> 0..ScoreSteps] : S \in SUBSET Dimensions },
        c \in {None, [bool |-> TRUE], [bool |-> FALSE]} }

QualityInit ==
    /\ analysis_results \in AnalysisResultsInputs
    /\ quality_result = None
    /\ ParkedButQuality

CalculateQualityScore ==
    /\ quality_result = None
    /\ quality_result' = calculate_explanation_quality_score(analysis_results)
    /\ UNCHANGED <<analysis_results, notQualityVars>>

QualityNext == CalculateQualityScore

SpecQuality == QualityInit /\ [][QualityNext]_vars

\* C1: whenever the compliance result has compliant = false, the returned
\* overall_score is at most 20 and compliance_gate_applied is true, for every
\* combination of the seven dimension scores; when compliant = true the
\* weighted score (25, 25, 15, 15, 10, 5, 5) is returned uncapped.
C1_ComplianceGate ==
    quality_result # None =>
        LET s(dim) == IF dim \in DOMAIN analysis_results.dims
                      THEN analysis_results.dims[dim] ELSE 0
            total == 25 * s("faithfulness") + 25 * s("lime_alignment")
                     + 15 * s("specificity") + 15 * s("completeness")
                     + 10 * s("consistency") + 5 * s("counterfactual")
                     + 5 * s("readability")
        IN  /\ analysis_results.compliance = [bool |-> FALSE] =>
                /\ quality_result.overall_score <= 20 * ScoreSteps
                /\ quality_result.compliance_gate_applied
            /\ analysis_results.compliance = [bool |-> TRUE] =>
                /\ quality_result.overall_score = total
                /\ ~quality_result.compliance_gate_applied

\* A non-compliant explanation whose seven dimensions are all 1.0 (weighted
\* score 100) has been scored.
C1_Witness ==
    /\ quality_result # None
    /\ analysis_results.compliance = [bool |-> FALSE]
    /\ DOMAIN analysis_results.dims = Dimensions
    /\ \A dim \in Dimensions : analysis_results.dims[dim] = ScoreSteps

\* the score of a dimension in the analysis results, 0 when it is missing
dimension_score(dim) ==
    IF dim \in DOMAIN analysis_results.dims THEN analysis_results.dims[dim] ELSE 0

\* C17: before the compliance gate the overall score is 25*faithfulness +
\* 25*lime_alignment + 15*specificity + 15*completeness + 10*consistency +
\* 5*counterfactual + 5*readability, a missing dimension counting as 0, so for
\* dimension scores in [0,1] it lies in [0,100]; the gate only lowers it.
C17_WeightedSum ==
    quality_result # None =>
        LET before_gate ==
                25 * dimension_score("faithfulness") + 25 * dimension_score("lime_alignment")
                + 15 * dimension_score("specificity") + 15 * dimension_score("completeness")
                + 10 * dimension_score("consistency") + 5 * dimension_score("counterfactual")
                + 5 * dimension_score("readability")
        IN  /\ 0 <= before_gate /\ before_gate <= 100 * ScoreSteps
            /\ quality_result.is_compliant => quality_result.overall_score = before_gate
            /\ ~quality_result.is_compliant =>
                  quality_result.overall_score = Min(before_gate, 20 * ScoreSteps)
            /\ 0 <= quality_result.overall_score
            /\ quality_result.overall_score <= 100 * ScoreSteps

\* A compliant result has been scored with faithfulness at 1, specificity
\* missing and every other dimension at 1: the overall score is 85.
C17_Witness ==
    /\ quality_result # None /\ quality_result.is_compliant
    /\ DOMAIN analysis_results.dims = Dimensions \ {"specificity"}
    /\ \A dim \in DOMAIN analysis_results.dims : analysis_results.dims[dim] = ScoreSteps
    /\ quality_result.overall_score = 85 * ScoreSteps

====
